---------------------------- MODULE Spec2Model ----------------------------
(* Syntax-Sorcerer: the code-indexing and retrieval pipeline.               *)
(*                                                                          *)
(* State: the Redis list store behind the chat history window, the          *)
(* Pinecone index partitioned by namespace, the codebase directories on     *)
(* disk, the background indexing tasks a download starts, and the HTTP       *)
(* requests in flight (each at the await it is suspended on).               *)
(*                                                                          *)
(* Specifications:                                                          *)
(*   Spec           the history routes (chat/memory, chat, chat with code   *)
(*                  context), requests one at a time                        *)
(*   FaultSpec      one session, the history routes with a store that can   *)
(*                  reject any command                                      *)
(*   ParserSpec     the parser applied to each of a family of source files  *)
(*   LifecycleSpec  one session: chat with code context, download and       *)
(*                  delete, requests one at a time                          *)
(*   IndexSpec      download, background indexing, search and delete,       *)
(*                  requests one at a time, indexing tasks interleaved      *)
(*   BatchSpec      one session, an archive with a file the parser rejects  *)
(*   FairBatchSpec  BatchSpec with every pending callback eventually run    *)
(*   OverlapSpec    one session whose download requests overlap             *)
(*   NamesSpec      an archive whose files declare units of equal name      *)
(*   RetrievalSpec  search and chat with code context during indexing       *)
(*   RaceSpec       legacy chat requests of one session overlapping         *)
(*   EnsureSpec     chat/memory and chat requests overlapping               *)
(*   WindowSpec     the history routes with usable replies only             *)
EXTENDS Integers, Sequences, FiniteSets, TLC

VARIABLES
    hist,       \* Redis: list key -> list of strings, head first (no key = <<>>)
    req,        \* request slot -> the request it serves and where it is suspended
    nChats,     \* chat prompts submitted so far (numbers the prompts)
    fs,         \* seed -> the archive extracted in its codebase directory, or "none"
    index,      \* Pinecone: namespace -> set of stored records
    tasks,      \* background work started by downloads: readdir callbacks, processFile runs
    nDownloads, \* archives extracted so far
    log,        \* the last console.error line of the background work
    parse       \* a source file given to the parser, and what the parser returned

vars == <<hist, req, nChats, fs, index, tasks, nDownloads, log, parse>>

----------------------------------------------------------------------------
(* Bounds of the model *)

\* chat prompts submitted in a run
MaxChats == 4

\* archives extracted in a run
MaxDownloads == 2

\* top-level statements of a source file given to the parser
MaxStatements == 2

\* chat requests of the session whose ensureExists calls and chat requests overlap
MaxOverlap == 3

----------------------------------------------------------------------------
(* Program constants *)

HistoryLimit == 6

TopK == 3

Sentinel == "Start of messages"

ErrorTurn == "Error: Something went wrong"

----------------------------------------------------------------------------
(* JavaScript values that reach a template literal *)

Seeds == {"1", "2"}

Undefined == [t |-> "undefined"]

\* what cookies().get("seed") returns: a {name, value} object, or undefined
CookieObject(seed) == [t |-> "object", name |-> "seed", value |-> seed]

Cookies == {Undefined} \cup {CookieObject(s) : s \in Seeds}

JsStr(s) == [t |-> "string", s |-> s]

\* `${v}`: ToString of the value, "[object Object]" for a plain object
TemplateString(v) ==
    CASE v.t = "undefined" -> "undefined"
      [] v.t = "object"    -> "[object Object]"
      [] v.t = "string"    -> v.s

\* `${seed}_chats` with seed = cookieStore.get("seed"), the cookie object itself
LegacyChatsKey(cookie) == TemplateString(cookie) \o "_chats"

\* `${seed}_chats` with seed = seedCookie.value
GroundedChatsKey(cookie) == TemplateString(JsStr(cookie.value)) \o "_chats"

\* `codebase${cookies().get("seed").value}`
NamespaceOf(cookie) == "codebase" \o TemplateString(JsStr(cookie.value))

Keys == {LegacyChatsKey(c) : c \in Cookies}
          \cup {GroundedChatsKey(c) : c \in Cookies \ {Undefined}}

Namespaces == {NamespaceOf(c) : c \in Cookies \ {Undefined}}

----------------------------------------------------------------------------
(* Redis list commands on one list value *)

RECURSIVE RemoveFirst(_, _)
RemoveFirst(list, v) ==
    IF list = <<>> THEN <<>>
    ELSE IF Head(list) = v THEN Tail(list)
    ELSE <<Head(list)>> \o RemoveFirst(Tail(list), v)

\* fault variant: the entry goes to the tail
lPushTail(list, v) == list \o <<v>>

lPush(list, v) == <<v>> \o list

\* fault variant: the removal finds nothing
lRemNothing(list, v) == list

\* LREM key 1 value: removes the first occurrence from the head
lRem(list, v) == RemoveFirst(list, v)

\* fault variant: nothing is removed
rPopNothing(list) == list

\* fault variant: the newest entry is removed
lPop(list) == IF list = <<>> THEN <<>> ELSE Tail(list)

rPop(list) == IF list = <<>> THEN <<>> ELSE SubSeq(list, 1, Len(list) - 1)

lLen(list) == Len(list)

\* fault variant: the key is never seen
existsNever(list) == FALSE

exists(list) == list # <<>>

----------------------------------------------------------------------------
(* Syntax trees, as tree-sitter-javascript builds them: every node has a type, the
   field name it has in its parent, its children (tokens included) and its text *)

Leaf(type, field, text) == [type |-> type, field |-> field, text |-> text, kids |-> <<>>]

Node(type, field, kids) == [type |-> type, field |-> field, text |-> "", kids |-> kids]

Null == Leaf("null", "", "")

Tok(t) == Leaf(t, "", t)

Ident(field, name) == Leaf("identifier", field, name)

Params == Node("formal_parameters", "parameters", <<Tok("("), Tok(")")>>)

Block(stmts) == Node("statement_block", "body", <<Tok("{")>> \o stmts \o <<Tok("}")>>)

\* [async] function name() { stmts }
FunDecl(async, name, stmts) ==
    Node("function_declaration", "",
         (IF async THEN <<Tok("async")>> ELSE <<>>)
            \o <<Tok("function"), Ident("name", name), Params, Block(stmts)>>)

\* () => { stmts }
Arrow(field, stmts) == Node("arrow_function", field, <<Params, Tok("=>"), Block(stmts)>>)

\* function () {}
FunExpr(field) == Node("function_expression", field, <<Tok("function"), Params, Block(<<>>)>>)

\* const name = value;
ConstDecl(name, value) ==
    Node("lexical_declaration", "",
         <<Tok("const"),
           Node("variable_declarator", "", <<Ident("name", name), Tok("="), value>>),
           Tok(";")>>)

\* { key: value }
ObjectLit(field, key, value) ==
    Node("object", field,
         <<Tok("{"),
           Node("pair", "", <<Leaf("property_identifier", "key", key), Tok(":"), value>>),
           Tok("}")>>)

\* callee(args);
CallStmt(callee, args) ==
    Node("expression_statement", "",
         <<Node("call_expression", "",
                <<Ident("function", callee),
                  Node("arguments", "arguments", <<Tok("(")>> \o args \o <<Tok(")")>>)>>),
           Tok(";")>>)

ClassBody(members) == Node("class_body", "body", <<Tok("{")>> \o members \o <<Tok("}")>>)

\* name() {} in a class body
Method(name) ==
    Node("method_definition", "",
         <<Leaf("property_identifier", "name", name), Params, Block(<<>>)>>)

\* class name { members }
ClassDecl(name, members) ==
    Node("class_declaration", "", <<Tok("class"), Ident("name", name), ClassBody(members)>>)

\* class { } as an expression
ClassExpr(field) == Node("class", field, <<Tok("class"), ClassBody(<<>>)>>)

Program(stmts) == Node("program", "", stmts)

\* node.text: the source text the node spans
RECURSIVE Text(_)
RECURSIVE JoinTexts(_)
JoinTexts(nodes) ==
    IF nodes = <<>> THEN ""
    ELSE IF Len(nodes) = 1 THEN Text(nodes[1])
    ELSE Text(Head(nodes)) \o " " \o JoinTexts(Tail(nodes))

Text(node) == IF node.kids = <<>> THEN node.text ELSE JoinTexts(node.kids)

\* node.child(i), null past the last child
child(node, i) == IF i + 1 \in DOMAIN node.kids THEN node.kids[i + 1] ELSE Null

\* node.childForFieldName(field), null when no child has the field
childForFieldName(node, field) ==
    LET at == {i \in DOMAIN node.kids : node.kids[i].field = field} IN
    IF at = {} THEN Null ELSE node.kids[CHOOSE i \in at : \A j \in at : i <= j]

----------------------------------------------------------------------------
(* parseCodeWithTreeSitter: traverse and extractFunctionName *)

FunctionTypes == {"function_declaration", "arrow_function", "function_expression"}

\* the name of a function that is no declaration, from its parent; "anonymous" else
extractFunctionName(node, parent) ==
    IF parent.type = "variable_declarator" /\ childForFieldName(parent, "name") # Null
    THEN Text(childForFieldName(parent, "name"))
    ELSE IF parent.type = "pair" /\ childForFieldName(parent, "key") # Null
    THEN Text(childForFieldName(parent, "key"))
    ELSE "anonymous"

\* const nameNode = node.child(1); the declaration's second child, or the lookup
FunctionName(node, parent) ==
    IF node.type = "function_declaration" /\ child(node, 1) # Null
    THEN Text(child(node, 1))
    ELSE extractFunctionName(node, parent)

\* the function unit the node gives, if any
FunctionUnits(node, parent) ==
    IF node.type \in FunctionTypes
          /\ FunctionName(node, parent) # "" /\ FunctionName(node, parent) # "anonymous"
    THEN <<[code |-> Text(node), function_name |-> FunctionName(node, parent)]>>
    ELSE <<>>

\* fault variant: a class body's methods are classes too
ClassNodeOrMethod(node) == node.type \in {"class_declaration", "method_definition"}

\* node.type === "class_declaration"
ClassNode(node) == node.type = "class_declaration"

\* the class unit the node gives, if any
ClassUnits(node) ==
    IF ClassNode(node) /\ childForFieldName(node, "name") # Null
          /\ Text(childForFieldName(node, "name")) # ""
    THEN <<[code |-> Text(node), class_name |-> Text(childForFieldName(node, "name"))]>>
    ELSE <<>>

\* traverse(node): the node's own units, then those of its children in order
RECURSIVE traverse(_, _)
RECURSIVE TraverseKids(_, _)
TraverseKids(node, i) ==
    IF i > Len(node.kids) THEN [functions |-> <<>>, classes |-> <<>>]
    ELSE LET first == traverse(node.kids[i], node)
             rest == TraverseKids(node, i + 1) IN
         [functions |-> first.functions \o rest.functions,
          classes |-> first.classes \o rest.classes]

\* fault variant: the children's units first, then the node's own
traversePost(node, parent) ==
    LET below == TraverseKids(node, 1) IN
    [functions |-> below.functions \o FunctionUnits(node, parent),
     classes |-> below.classes \o ClassUnits(node)]

traverse(node, parent) ==
    LET below == TraverseKids(node, 1) IN
    [functions |-> FunctionUnits(node, parent) \o below.functions,
     classes |-> ClassUnits(node) \o below.classes]

\* the source files given to the parser: one or more of these statements
Statements ==
    { FunDecl(FALSE, "f", <<>>),
      FunDecl(TRUE, "g", <<>>),
      FunDecl(FALSE, "anonymous", <<>>),
      FunDecl(FALSE, "outer", <<FunDecl(FALSE, "inner", <<>>)>>),
      FunDecl(FALSE, "h", <<CallStmt("each", <<Arrow("", <<>>)>>)>>),
      ConstDecl("a", Arrow("value", <<>>)),
      ConstDecl("b", FunExpr("value")),
      ConstDecl("anonymous", Arrow("value", <<>>)),
      ConstDecl("o", ObjectLit("value", "m", FunExpr("value"))),
      CallStmt("run", <<Arrow("", <<>>)>>),
      ClassDecl("K", <<Method("run")>>),
      ClassDecl("L", <<>>),
      ConstDecl("C", ClassExpr("value")),
      ConstDecl("n", Leaf("number", "value", "1")) }

SourceFiles == UNION {[1..n -> Statements] : n \in 1..MaxStatements}

NoParse == [file |-> <<>>, parsed |-> FALSE, functions |-> <<>>, classes |-> <<>>]

\* parser.parse(fileContent), traverse(tree.rootNode), return { functions, classes }
ParseFile ==
    /\ ~parse.parsed
    /\ LET found == traverse(Program(parse.file), Null) IN
       parse' = [parse EXCEPT !.parsed = TRUE, !.functions = found.functions,
                              !.classes = found.classes]
    /\ UNCHANGED <<hist, req, nChats, fs, index, tasks, nDownloads, log>>

----------------------------------------------------------------------------
(* Requests *)

Slots == {1, 2}

NoResponse == [status |-> 0, error |-> "", text |-> "", hasFiles |-> FALSE, files |-> <<>>]

ErrorResponse(status, msg) ==
    [status |-> status, error |-> msg, text |-> "", hasFiles |-> FALSE, files |-> <<>>]

TextResponse(status, txt) ==
    [status |-> status, error |-> "", text |-> txt, hasFiles |-> FALSE, files |-> <<>>]

FilesResponse(txt, files) ==
    [status |-> 200, error |-> "", text |-> txt, hasFiles |-> TRUE, files |-> files]

\* a chat completion's message content: optional surrounding whitespace and a core
Content(pad, core) == [pad |-> pad, core |-> core]

ContentString(c) == (IF c.pad THEN " " ELSE "") \o c.core

\* String.prototype.trim
Trim(c) == c.core

NoReply == [choices |-> <<>>]

\* the parts of a system message that vary: the code context and the history text
NoPrompt == [codeContext |-> <<>>, chatHistory |-> <<>>]

Idle ==
    [route |-> "none", pc |-> "idle", cookie |-> Undefined, prompt |-> "", url |-> "",
     key |-> "", chats |-> <<>>, reply |-> NoReply, chatLength |-> 0,
     embedding |-> Undefined, queried |-> FALSE, pineconeError |-> FALSE,
     matches |-> <<>>, system |-> NoPrompt, calls |-> {}, resp |-> NoResponse]

Busy(p) == req[p].pc \notin {"idle", "done"}

\* the client starts a request only when no other request is in progress
Sequential == \A q \in Slots : ~Busy(q)

\* the response goes out: what stays of the request is what it did and answered
Done(p, r, response) ==
    [Idle EXCEPT !.route = r.route, !.pc = "done", !.cookie = r.cookie, !.key = r.key,
                 !.prompt = r.prompt, !.embedding = r.embedding, !.queried = r.queried,
                 !.pineconeError = r.pineconeError, !.calls = r.calls, !.resp = response]

\* the user's prompt of the next chat request; "" when the input box was empty
Prompts == {"", "q" \o ToString(nChats + 1)}

\* what openai.chat.completions.create resolves to for the n-th prompt
Replies(n) ==
    { NoReply,
      [choices |-> <<[content |-> Content(FALSE, "")]>>],
      [choices |-> <<[content |-> Content(TRUE, "r" \o ToString(n))]>>] }

\* data && data.length > 0 && data[0].message && data[0].message.content
Usable(reply) ==
    /\ Len(reply.choices) > 0
    /\ ContentString(reply.choices[1].content) # ""

UserTurn(prompt) == "User: " \o prompt

AssistantTurn(reply) == "Assistant: " \o Trim(reply.choices[1].content)

----------------------------------------------------------------------------
(* GET /chat/memory: ensureExists *)

MemoryGET_Start(p, cookies) ==
    /\ ~Busy(p)
    /\ \E c \in cookies :
        req' = [req EXCEPT ![p] = [Idle EXCEPT !.route = "memory", !.pc = "exists",
                                               !.cookie = c, !.key = LegacyChatsKey(c)]]
    /\ UNCHANGED <<hist, nChats, fs, index, tasks, nDownloads, log, parse>>

\* await client.exists(key); the "present" answer returns at once
MemoryGET_Exists(p) ==
    /\ req[p].route = "memory" /\ req[p].pc = "exists"
    /\ LET r == [req[p] EXCEPT !.calls = @ \cup {"redis"}] IN
       IF exists(hist[r.key])
       THEN req' = [req EXCEPT ![p] = Done(p, r, TextResponse(200, "Chatbot memory present"))]
       ELSE req' = [req EXCEPT ![p] = [r EXCEPT !.pc = "lPush"]]
    /\ UNCHANGED <<hist, nChats, fs, index, tasks, nDownloads, log, parse>>

\* await client.lPush(key, "Start of messages")
MemoryGET_Push(p) ==
    /\ req[p].route = "memory" /\ req[p].pc = "lPush"
    /\ hist' = [hist EXCEPT ![req[p].key] = lPush(@, Sentinel)]
    /\ req' = [req EXCEPT ![p] = Done(p, req[p], TextResponse(200, "Chatbot memory initialized"))]
    /\ UNCHANGED <<nChats, fs, index, tasks, nDownloads, log, parse>>

----------------------------------------------------------------------------
(* The history steps both chat routes share, statement for statement *)

\* the history text of the prompt: every entry, unless the list holds at most one
\* ("skip the starting message")
ChatHistory(chats) == IF Len(chats) > 1 THEN chats ELSE <<>>

\* const chats = await client.lRange(key, 0, -1)
ReadHistory(p) ==
    /\ req[p].pc = "lRange"
    /\ req' = [req EXCEPT ![p] = [@ EXCEPT !.pc = "complete", !.calls = @ \cup {"redis"},
                                          !.chats = hist[req[p].key]]]
    /\ UNCHANGED <<hist, nChats, fs, index, tasks, nDownloads, log, parse>>

\* result.metadata.code || "N/A"
MetadataCode(result) ==
    IF "code" \in DOMAIN result.metadata THEN result.metadata.code ELSE "N/A"

\* codeContext: one block per match, File, Type, Name and Code
CodeContext(matches) ==
    [k \in DOMAIN matches |->
        [File |-> matches[k].metadata.filepath, Type |-> matches[k].metadata.type,
         Name |-> matches[k].id, Code |-> MetadataCode(matches[k])]]

\* the system message: the fixed instructions, then the code context if there is one,
\* then the history text
SystemPrompt(r) == [codeContext |-> CodeContext(r.matches), chatHistory |-> ChatHistory(r.chats)]

\* await openai.chat.completions.create(...): a reply, or a rejection caught as 500
Complete(p, failure) ==
    /\ req[p].pc = "complete"
    /\ \/ \E reply \in Replies(nChats) :
            req' = [req EXCEPT ![p] = [@ EXCEPT !.pc = "lPushUser", !.reply = reply,
                                                !.system = SystemPrompt(req[p]),
                                                !.calls = @ \cup {"openai.chat"}]]
       \/ req' = [req EXCEPT ![p] = Done(p, [@ EXCEPT !.calls = @ \cup {"openai.chat"}], failure)]
    /\ UNCHANGED <<hist, nChats, fs, index, tasks, nDownloads, log, parse>>

\* await client.lPush(key, `User: ${userInput}`)
PushUser(p) ==
    /\ req[p].pc = "lPushUser"
    /\ hist' = [hist EXCEPT ![req[p].key] = lPush(@, UserTurn(req[p].prompt))]
    /\ req' = [req EXCEPT ![p].pc = "lRem"]
    /\ UNCHANGED <<nChats, fs, index, tasks, nDownloads, log, parse>>

\* await client.lRem(key, 1, "Start of messages")
RemoveSentinel(p) ==
    /\ req[p].pc = "lRem"
    /\ hist' = [hist EXCEPT ![req[p].key] = lRem(@, Sentinel)]
    /\ req' = [req EXCEPT ![p].pc = "lPushReply"]
    /\ UNCHANGED <<nChats, fs, index, tasks, nDownloads, log, parse>>

\* for (let i = 0; i < 2; i++) await client.rPop(key): one pop per step
PopOldest(p, response) ==
    /\ req[p].pc \in {"rPop1", "rPop2"}
    /\ hist' = [hist EXCEPT ![req[p].key] = rPop(@)]
    /\ req' = [req EXCEPT ![p] = IF req[p].pc = "rPop1"
                                 THEN [@ EXCEPT !.pc = "rPop2"]
                                 ELSE Done(p, @, response)]
    /\ UNCHANGED <<nChats, fs, index, tasks, nDownloads, log, parse>>

----------------------------------------------------------------------------
(* POST /chat, src/app/chat/route.js *)

\* the response after the trim: text of choice 0, or "Invalid response from API"
ChatPOST_Response(reply) ==
    IF Len(reply.choices) > 0
    THEN TextResponse(200, Trim(reply.choices[1].content))
    ELSE ErrorResponse(500, "Invalid response from API")

ChatPOST_Start(p, cookies) ==
    /\ ~Busy(p)
    /\ nChats < MaxChats
    /\ \E c \in cookies, prompt \in Prompts :
        LET r == [Idle EXCEPT !.route = "chat", !.cookie = c, !.prompt = prompt] IN
        IF prompt = ""
        THEN /\ req' = [req EXCEPT ![p] = Done(p, r, ErrorResponse(400, "Prompt is required"))]
             /\ UNCHANGED nChats
        ELSE /\ req' = [req EXCEPT ![p] = [r EXCEPT !.pc = "lRange", !.key = LegacyChatsKey(c)]]
             /\ nChats' = nChats + 1
    /\ UNCHANGED <<hist, fs, index, tasks, nDownloads, log, parse>>

ChatPOST_Range(p) == req[p].route = "chat" /\ ReadHistory(p)

ChatPOST_Complete(p) ==
    req[p].route = "chat" /\ Complete(p, ErrorResponse(500, "Something went wrong"))

ChatPOST_PushUser(p) == req[p].route = "chat" /\ PushUser(p)

ChatPOST_Rem(p) == req[p].route = "chat" /\ RemoveSentinel(p)

\* the assistant's turn, or the error turn; the trim follows either
ChatPOST_PushReply(p) ==
    /\ req[p].route = "chat" /\ req[p].pc = "lPushReply"
    /\ hist' = [hist EXCEPT ![req[p].key] =
                   lPush(@, IF Usable(req[p].reply) THEN AssistantTurn(req[p].reply)
                                                    ELSE ErrorTurn)]
    /\ req' = [req EXCEPT ![p].pc = "lLen"]
    /\ UNCHANGED <<nChats, fs, index, tasks, nDownloads, log, parse>>

\* const chatLength = await client.lLen(key); if (chatLength >= 6) pop twice
ChatPOST_Len(p) ==
    /\ req[p].route = "chat" /\ req[p].pc = "lLen"
    /\ LET n == lLen(hist[req[p].key]) IN
       req' = [req EXCEPT ![p] =
                  IF n >= HistoryLimit
                  THEN [@ EXCEPT !.pc = "rPop1", !.chatLength = n]
                  ELSE Done(p, [@ EXCEPT !.chatLength = n], ChatPOST_Response(req[p].reply))]
    /\ UNCHANGED <<hist, nChats, fs, index, tasks, nDownloads, log, parse>>

ChatPOST_Pop(p) == req[p].route = "chat" /\ PopOldest(p, ChatPOST_Response(req[p].reply))

ChatPOST(p) ==
    \/ ChatPOST_Range(p)
    \/ ChatPOST_Complete(p)
    \/ ChatPOST_PushUser(p)
    \/ ChatPOST_Rem(p)
    \/ ChatPOST_PushReply(p)
    \/ ChatPOST_Len(p)
    \/ ChatPOST_Pop(p)

MemoryGET(p) == MemoryGET_Exists(p) \/ MemoryGET_Push(p)

----------------------------------------------------------------------------
(* A Redis command rejects: the handler's catch block answers *)

\* the awaits of a chat handler that are Redis commands
StoreCalls == {"lRange", "lPushUser", "lRem", "lPushReply", "lLen", "rPop1", "rPop2"}

\* fault variant: the catch block answers as if nothing had happened
CatchSwallowed == TextResponse(200, "")

\* catch (error) { return NextResponse.json({ error: "Something went wrong" }, { status: 500 }) }
CatchResponse == ErrorResponse(500, "Something went wrong")

StoreRejects(p, response) ==
    /\ req' = [req EXCEPT ![p] = Done(p, [@ EXCEPT !.calls = @ \cup {"redis"}], response)]
    /\ UNCHANGED <<hist, nChats, fs, index, tasks, nDownloads, log, parse>>

ChatPOST_Catch(p) ==
    /\ req[p].route = "chat" /\ req[p].pc \in StoreCalls
    /\ StoreRejects(p, CatchResponse)

MemoryGET_Catch(p) ==
    /\ req[p].route = "memory" /\ req[p].pc \in {"exists", "lPush"}
    /\ StoreRejects(p, ErrorResponse(500, "Failed to initialize memory"))

----------------------------------------------------------------------------
(* The embedding service and the vector index, as the routes call them *)

\* the vector text-embedding-ada-002 gives a text
Vector(text) == [t |-> "vector", of |-> text]

\* generateEmbeddings(text): the vector, or undefined when the call failed
\* (the catch block logs and falls off the end of the function)
generateEmbeddings(text) == {Vector(text), Undefined}

RECURSIVE Orderings(_)
Orderings(S) ==
    IF S = {} THEN {<<>>}
    ELSE UNION {{<<x>> \o rest : rest \in Orderings(S \ {x})} : x \in S}

Min(a, b) == IF a < b THEN a ELSE b

\* index.namespace(ns).query({vector, topK, includeMetadata}): the topK nearest
\* records, best first; which are nearest is the service's cosine metric
QueryResults(ns, topK) ==
    UNION {Orderings(S) : S \in {T \in SUBSET index[ns] :
                                    Cardinality(T) = Min(topK, Cardinality(index[ns]))}}

\* similaritySearch(embedding, namespace, topK = 3) resolves to matches or rejects
similaritySearch(embedding, ns, topK) ==
    IF embedding = Undefined THEN {<<>>} ELSE QueryResults(ns, topK)

----------------------------------------------------------------------------
(* POST /chat with code context, src/components/Chatbot.jsx:103-274 *)

GroundedPOST_Start(p, cookies) ==
    /\ ~Busy(p)
    /\ nChats < MaxChats
    /\ \E c \in cookies, prompt \in Prompts :
        LET r == [Idle EXCEPT !.route = "grounded", !.cookie = c, !.prompt = prompt] IN
        IF prompt = ""
        THEN /\ req' = [req EXCEPT ![p] = Done(p, r, ErrorResponse(400, "Prompt is required"))]
             /\ UNCHANGED nChats
        ELSE IF c = Undefined
        THEN /\ req' = [req EXCEPT ![p] = Done(p, r, ErrorResponse(400, "Session not found"))]
             /\ UNCHANGED nChats
        ELSE /\ req' = [req EXCEPT ![p] = [r EXCEPT !.pc = "embed", !.key = GroundedChatsKey(c)]]
             /\ nChats' = nChats + 1
    /\ UNCHANGED <<hist, fs, index, tasks, nDownloads, log, parse>>

\* const promptEmbedding = await generateEmbeddings(userInput)
GroundedPOST_Embed(p) ==
    /\ req[p].route = "grounded" /\ req[p].pc = "embed"
    /\ \E e \in generateEmbeddings(req[p].prompt) :
        req' = [req EXCEPT ![p] = [@ EXCEPT !.pc = "search", !.embedding = e,
                                            !.calls = @ \cup {"openai.embeddings"}]]
    /\ UNCHANGED <<hist, nChats, fs, index, tasks, nDownloads, log, parse>>

\* relevantCode = await pinecone.similaritySearch(promptEmbedding, `codebase${seed}`, 3)
\* inside its own try: a rejection is logged and the request goes on without context
GroundedPOST_Search(p) ==
    /\ req[p].route = "grounded" /\ req[p].pc = "search"
    /\ LET r == [req[p] EXCEPT !.pc = "lRange", !.queried = TRUE,
                               !.calls = @ \cup {"pinecone.query"}] IN
       \/ \E m \in similaritySearch(req[p].embedding, NamespaceOf(req[p].cookie), TopK) :
            req' = [req EXCEPT ![p] = [r EXCEPT !.matches = m]]
       \/ req' = [req EXCEPT ![p] = [r EXCEPT !.pineconeError = TRUE]]
    /\ UNCHANGED <<hist, nChats, fs, index, tasks, nDownloads, log, parse>>

GroundedPOST_Range(p) == req[p].route = "grounded" /\ ReadHistory(p)

GroundedPOST_Complete(p) ==
    req[p].route = "grounded" /\ Complete(p, ErrorResponse(500, "Something went wrong"))

GroundedPOST_PushUser(p) == req[p].route = "grounded" /\ PushUser(p)

GroundedPOST_Rem(p) == req[p].route = "grounded" /\ RemoveSentinel(p)

\* usable reply: push the assistant's turn and go on to the trim;
\* otherwise push the error turn and return 500 at once
GroundedPOST_PushReply(p) ==
    /\ req[p].route = "grounded" /\ req[p].pc = "lPushReply"
    /\ IF Usable(req[p].reply)
       THEN /\ hist' = [hist EXCEPT ![req[p].key] = lPush(@, AssistantTurn(req[p].reply))]
            /\ req' = [req EXCEPT ![p].pc = "lLen"]
       ELSE /\ hist' = [hist EXCEPT ![req[p].key] = lPush(@, ErrorTurn)]
            /\ req' = [req EXCEPT ![p] = Done(p, @, ErrorResponse(500, "Invalid response from API"))]
    /\ UNCHANGED <<nChats, fs, index, tasks, nDownloads, log, parse>>

GroundedPOST_Response(reply) == TextResponse(200, Trim(reply.choices[1].content))

GroundedPOST_Len(p) ==
    /\ req[p].route = "grounded" /\ req[p].pc = "lLen"
    /\ LET n == lLen(hist[req[p].key]) IN
       req' = [req EXCEPT ![p] =
                  IF n >= HistoryLimit
                  THEN [@ EXCEPT !.pc = "rPop1", !.chatLength = n]
                  ELSE Done(p, [@ EXCEPT !.chatLength = n], GroundedPOST_Response(req[p].reply))]
    /\ UNCHANGED <<hist, nChats, fs, index, tasks, nDownloads, log, parse>>

GroundedPOST_Pop(p) ==
    req[p].route = "grounded" /\ PopOldest(p, GroundedPOST_Response(req[p].reply))

GroundedPOST(p) ==
    \/ GroundedPOST_Embed(p)
    \/ GroundedPOST_Search(p)
    \/ GroundedPOST_Range(p)
    \/ GroundedPOST_Complete(p)
    \/ GroundedPOST_PushUser(p)
    \/ GroundedPOST_Rem(p)
    \/ GroundedPOST_PushReply(p)
    \/ GroundedPOST_Len(p)
    \/ GroundedPOST_Pop(p)

GroundedPOST_Catch(p) ==
    /\ req[p].route = "grounded" /\ req[p].pc \in StoreCalls
    /\ StoreRejects(p, CatchResponse)

----------------------------------------------------------------------------
(* The archives a download URL can point to, as extracted on disk *)

\* path.join
Join(dir, name) == IF dir = "" THEN name ELSE dir \o "/" \o name

File(name, ext) == [name |-> name, ext |-> ext, isDirectory |-> FALSE]

Dir(name) == [name |-> name, ext |-> "", isDirectory |-> TRUE]

Urls == {"", "http://host/proj.zip", "http://host/docs.zip", "http://host/lib.zip",
         "http://host/web.zip", "http://host/kit.zip"}

\* path.basename(url, ".zip")
Basename(url) ==
    CASE url = "http://host/proj.zip" -> "proj"
      [] url = "http://host/lib.zip"  -> "lib"
      [] url = "http://host/web.zip"  -> "web"
      [] url = "http://host/kit.zip"  -> "kit"
      [] OTHER                        -> "docs"

\* directory (relative to the codebase directory) -> its entries, per archive
Tree(url) ==
    IF url = "http://host/proj.zip"
    THEN [d \in {"", "proj"} |->
            CASE d = ""     -> {Dir("proj")}
              [] d = "proj" -> {File("a", ".js"), File("notes", ".md")}]
    ELSE IF url = "http://host/lib.zip"
    THEN [d \in {"", "lib"} |->
            CASE d = ""    -> {Dir("lib")}
              [] d = "lib" -> {File("a", ".js"), File("bad", ".js"), File("u", ".js"),
                               File("notes", ".md")}]
    ELSE IF url = "http://host/kit.zip"
    THEN [d \in {"", "kit"} |->
            CASE d = ""    -> {Dir("kit")}
              [] d = "kit" -> {File("a", ".js"), File("b", ".js")}]
    ELSE IF url = "http://host/web.zip"
    THEN [d \in {"", "web"} |->
            CASE d = ""    -> {Dir("web")}
              [] d = "web" -> {File("a", ".js"), File("b", ".js"), File("t", ".ts")}]
    ELSE [d \in {"", "docs"} |->
            CASE d = ""     -> {Dir("docs")}
              [] d = "docs" -> {File("README", ".md")}]

\* what the parser extracts from each source file: name and source text of the units;
\* the extended parser adds the comments longer than 10 characters or holding a
\* block-comment opener, named comment_<n>, and the declarators of the
\* variable_declaration nodes outside any function
Parsed(rel) ==
    CASE rel = "proj/a.js" ->
            [functions |-> <<[function_name |-> "f", code |-> "function f(){}"]>>,
             classes   |-> <<[class_name |-> "K", code |-> "class K{}"]>>,
             comments  |-> <<>>, variables |-> <<>>]
      [] rel = "lib/a.js" ->
            [functions |-> <<[function_name |-> "f", code |-> "function f(){}"]>>,
             classes   |-> <<>>,
             comments  |-> <<[comment_name |-> "comment_1", code |-> "/** doc of f */"]>>,
             variables |-> <<[variable_name |-> "x", code |-> "var x = 1"]>>]
      [] rel = "lib/u.js" ->
            [functions |-> <<[function_name |-> "g", code |-> "function g(){}"]>>,
             classes   |-> <<>>,
             comments  |-> <<>>, variables |-> <<>>]
      [] rel = "kit/a.js" ->
            [functions |-> <<[function_name |-> "f", code |-> "function f(){}"]>>,
             classes   |-> <<[class_name |-> "K", code |-> "class K{}"],
                             [class_name |-> "L", code |-> "class L{}"]>>,
             comments  |-> <<>>, variables |-> <<>>]
      [] rel = "kit/b.js" ->
            [functions |-> <<[function_name |-> "g", code |-> "function g(){}"]>>,
             classes   |-> <<>>,
             comments  |-> <<>>, variables |-> <<>>]
      [] rel = "web/a.js" ->
            [functions |-> <<[function_name |-> "f", code |-> "function f(){}"]>>,
             classes   |-> <<>>,
             comments  |-> <<>>, variables |-> <<>>]
      [] rel = "web/b.js" ->
            [functions |-> <<[function_name |-> "f", code |-> "function f(){return 1}"]>>,
             classes   |-> <<>>,
             comments  |-> <<>>, variables |-> <<>>]
      [] rel = "web/t.ts" ->
            [functions |-> <<[function_name |-> "h", code |-> "function h(){}"]>>,
             classes   |-> <<>>,
             comments  |-> <<>>, variables |-> <<>>]
      [] OTHER -> [functions |-> <<>>, classes |-> <<>>, comments |-> <<>>, variables |-> <<>>]

\* the files on which fs.readFileSync or parser.parse throws
Unreadable(rel) == rel = "lib/bad.js"

\* path.join(NEXT_PUBLIC_CODEBASE_DIR, `codebase${seed}`)
CodebasePath(cookie) == Join("codebases", NamespaceOf(cookie))

\* directories and files under a codebase directory holding archive url
DirsOf(url) == DOMAIN Tree(url)

FilesOf(url) ==
    UNION {{Join(d, e.name \o e.ext) : e \in {x \in Tree(url)[d] : ~x.isDirectory}} :
             d \in DirsOf(url)}

\* fs.existsSync(codebasePath)
existsSync(cookie) == fs[cookie.value] # "none"

\* fs.promises.readFile(path): the file's text; absent once the directory is gone
FileExists(seed, rel) == fs[seed] # "none" /\ rel \in FilesOf(fs[seed])

FileText(path) == "source of " \o path

----------------------------------------------------------------------------
(* Background indexing: traverseDirectory and processFile *)

\* filePath.endsWith(".js") || .jsx || .ts || .tsx
IsSourceFile(entry) == entry.ext \in {".js", ".jsx", ".ts", ".tsx"}

DirTask(gen, cookie, dir) ==
    [kind |-> "readdir", gen |-> gen, cookie |-> cookie, path |-> dir, pc |-> "readdir",
     functions |-> <<>>, classes |-> <<>>, comments |-> <<>>, variables |-> <<>>]

\* parseCodeWithTreeSitter(filepath): the units, each with the file's relative path
parseCodeWithTreeSitter(cookie, rel) ==
    LET relativeFilePath == Join(CodebasePath(cookie), rel) IN
    [functions |-> [k \in DOMAIN Parsed(rel).functions |->
                       [code |-> Parsed(rel).functions[k].code,
                        function_name |-> Parsed(rel).functions[k].function_name,
                        filepath |-> relativeFilePath, embedding |-> Undefined]],
     classes   |-> [k \in DOMAIN Parsed(rel).classes |->
                       [code |-> Parsed(rel).classes[k].code,
                        class_name |-> Parsed(rel).classes[k].class_name,
                        filepath |-> relativeFilePath, embedding |-> Undefined]],
     comments  |-> [k \in DOMAIN Parsed(rel).comments |->
                       [code |-> Parsed(rel).comments[k].code,
                        comment_name |-> Parsed(rel).comments[k].comment_name,
                        filepath |-> relativeFilePath, embedding |-> Undefined]],
     variables |-> [k \in DOMAIN Parsed(rel).variables |->
                       [code |-> Parsed(rel).variables[k].code,
                        variable_name |-> Parsed(rel).variables[k].variable_name,
                        filepath |-> relativeFilePath, embedding |-> Undefined]]]

\* processFile up to its first suspension: the file is read and parsed at once; when
\* that throws, the promise is rejected and its catch handlers run later
FileTask(gen, cookie, rel) ==
    LET codeBlocks == parseCodeWithTreeSitter(cookie, rel) IN
    [kind |-> "file", gen |-> gen, cookie |-> cookie, path |-> rel,
     pc |-> IF Unreadable(rel) THEN "catch" ELSE "embed",
     functions |-> codeBlocks.functions, classes |-> codeBlocks.classes,
     comments |-> codeBlocks.comments, variables |-> codeBlocks.variables]

\* the fs.readdir callback of traverseDirectory(directoryPath)
TraverseDirectory(t) ==
    /\ t \in tasks /\ t.kind = "readdir"
    /\ LET seed == t.cookie.value IN
       IF fs[seed] = "none" \/ t.path \notin DirsOf(fs[seed])
       THEN \* err: "Failed to read codebase directory"
            /\ tasks' = tasks \ {t}
            /\ log' = <<"Failed to read codebase directory", t.path>>
       ELSE LET entries == Tree(fs[seed])[t.path] IN
            /\ tasks' = (tasks \ {t})
                 \cup {DirTask(t.gen, t.cookie, Join(t.path, e.name)) :
                          e \in {x \in entries : x.isDirectory}}
                 \cup {FileTask(t.gen, t.cookie, Join(t.path, e.name \o e.ext)) :
                          e \in {x \in entries : ~x.isDirectory /\ IsSourceFile(x)}}
            /\ UNCHANGED log
    /\ UNCHANGED <<hist, req, nChats, fs, index, nDownloads, parse>>

\* fault variant: the rejection of one file ends the whole traversal
ProcessFile_Abort(t) ==
    /\ t \in tasks /\ t.kind = "file" /\ t.pc = "catch"
    /\ tasks' = {}
    /\ log' = <<"Error processing", t.path>>
    /\ UNCHANGED <<hist, req, nChats, fs, index, nDownloads, parse>>

\* fault variant: the failure is logged and the file's processing never settles
ProcessFile_Unsettled(t) ==
    /\ t \in tasks /\ t.kind = "file" /\ t.pc = "catch"
    /\ tasks' = tasks
    /\ log' = <<"Error processing", t.path>>
    /\ UNCHANGED <<hist, req, nChats, fs, index, nDownloads, parse>>

\* the parser threw: processFile's catch logs and rethrows, and the .catch of the
\* traversal logs again; nothing else is touched
ProcessFile_Catch(t) ==
    /\ t \in tasks /\ t.kind = "file" /\ t.pc = "catch"
    /\ tasks' = tasks \ {t}
    /\ log' = <<"Error processing", t.path>>
    /\ UNCHANGED <<hist, req, nChats, fs, index, nDownloads, parse>>

\* generateEmbeddings(unit.code) for each unit of a list, in order: every way the
\* calls can turn out; the embedding field is set only when a vector came back
RECURSIVE Embedded(_)
Embedded(units) ==
    IF units = <<>> THEN {<<>>}
    ELSE {<<IF e # Undefined THEN [Head(units) EXCEPT !.embedding = e] ELSE Head(units)>>
            \o rest : e \in generateEmbeddings(Head(units).code),
                      rest \in Embedded(Tail(units))}

\* processAndUpdateDictionary(dict): the functions, then the classes. The calls touch
\* nothing but the task's own dictionary, so the loop is one step of the task.
processAndUpdateDictionary(dict) ==
    {[dict EXCEPT !.functions = fs_, !.classes = cs] :
        fs_ \in Embedded(dict.functions), cs \in Embedded(dict.classes)}

ProcessFile_Embed(t) ==
    /\ t \in tasks /\ t.kind = "file" /\ t.pc = "embed"
    /\ \E u \in processAndUpdateDictionary(t) :
          tasks' = (tasks \ {t}) \cup {[u EXCEPT !.pc = "upsert"]}
    /\ UNCHANGED <<hist, req, nChats, fs, index, nDownloads, log, parse>>

\* fault variant: every unit goes into the payload
HasEmbeddingAlways(unit) == TRUE

\* func.embedding && Array.isArray(func.embedding)
HasEmbedding(unit) == unit.embedding # Undefined

RECURSIVE FunctionVectors(_)
FunctionVectors(units) ==
    IF units = <<>> THEN <<>>
    ELSE (IF HasEmbedding(Head(units))
          THEN <<[id |-> Head(units).function_name, values |-> Head(units).embedding,
                  metadata |-> [filepath |-> Head(units).filepath, type |-> "function"]]>>
          ELSE <<>>) \o FunctionVectors(Tail(units))

RECURSIVE ClassVectors(_)
ClassVectors(units) ==
    IF units = <<>> THEN <<>>
    ELSE (IF HasEmbedding(Head(units))
          THEN <<[id |-> Head(units).class_name, values |-> Head(units).embedding,
                  metadata |-> [filepath |-> Head(units).filepath, type |-> "class"]]>>
          ELSE <<>>) \o ClassVectors(Tail(units))

\* fault variant: the comment and variable units are embedded and sent as well
UpsertPayloadAll(data) ==
    FunctionVectors(data.functions) \o ClassVectors(data.classes)
       \o [k \in DOMAIN data.comments |->
              [id |-> data.comments[k].comment_name, values |-> Vector(data.comments[k].code),
               metadata |-> [filepath |-> data.comments[k].filepath, type |-> "comment"]]]
       \o [k \in DOMAIN data.variables |->
              [id |-> data.variables[k].variable_name, values |-> Vector(data.variables[k].code),
               metadata |-> [filepath |-> data.variables[k].filepath, type |-> "variable"]]]

\* the payload upsertEmbeddings builds: functions, then classes, those with a vector
UpsertPayload(data) == FunctionVectors(data.functions) \o ClassVectors(data.classes)

\* fault variant: the payload takes the place of what is stored
UpsertedAlone(stored, payload) == {payload[i] : i \in DOMAIN payload}

\* fault variant: the payload is added to what is stored
UpsertedAdding(stored, payload) == stored \cup {payload[i] : i \in DOMAIN payload}

\* upsert into one namespace: a record replaces the stored record of the same id
RECURSIVE Upserted(_, _)
Upserted(stored, payload) ==
    IF payload = <<>> THEN stored
    ELSE Upserted({r \in stored : r.id # Head(payload).id} \cup {Head(payload)},
                  Tail(payload))

\* await pinecone.upsertEmbeddings(embeddedCodeBlocks), namespace from the seed cookie;
\* a rejection is logged by processFile and by the caller's catch
ProcessFile_Upsert(t) ==
    /\ t \in tasks /\ t.kind = "file" /\ t.pc = "upsert"
    /\ tasks' = tasks \ {t}
    /\ \/ /\ index' = [index EXCEPT ![NamespaceOf(t.cookie)] = Upserted(@, UpsertPayload(t))]
          /\ UNCHANGED log
       \/ /\ log' = <<"Error processing", t.path>>
          /\ UNCHANGED index
    /\ UNCHANGED <<hist, req, nChats, fs, nDownloads, parse>>


----------------------------------------------------------------------------
(* Routes that read cookies().get("seed").value outside any try block *)

\* TypeError on undefined: the handler throws and the framework answers 500
Unhandled == ErrorResponse(500, "TypeError: cannot read 'value' of undefined")

----------------------------------------------------------------------------
(* POST /download, src/app/download/route.js *)

DownloadPOST_Start(p, cookies, urls) ==
    /\ ~Busy(p)
    /\ \E c \in cookies, url \in urls :
        LET r == [Idle EXCEPT !.route = "download", !.cookie = c, !.url = url] IN
        req' = [req EXCEPT ![p] =
                   IF c = Undefined THEN Done(p, r, Unhandled)
                   ELSE IF existsSync(c)
                   THEN Done(p, r, ErrorResponse(400,
                            "Codebase already uploaded; delete it to upload another"))
                   ELSE IF url = "" THEN Done(p, r, ErrorResponse(400, "URL is required"))
                   ELSE [r EXCEPT !.pc = "axios"]]
    /\ UNCHANGED <<hist, nChats, fs, index, tasks, nDownloads, log, parse>>

\* fault variant: the traversal is not started
StartedNothing(gen, cookie) == {}

\* traverseDirectory(codebasePath): called, not awaited
StartedTasks(gen, cookie) == {DirTask(gen, cookie, "")}

\* await axios(...) resolves: extract the archive, start traverseDirectory(codebasePath)
\* in the background and answer; or it rejects: { error } with the default status
DownloadPOST_Fetch(p) ==
    /\ req[p].route = "download" /\ req[p].pc = "axios"
    /\ \/ /\ nDownloads < MaxDownloads
          /\ fs' = [fs EXCEPT ![req[p].cookie.value] = req[p].url]
          /\ nDownloads' = nDownloads + 1
          /\ tasks' = tasks \cup StartedTasks(nDownloads + 1, req[p].cookie)
          /\ req' = [req EXCEPT ![p] =
                        Done(p, @, TextResponse(200, "Codebase downloaded and extracted"))]
       \/ /\ req' = [req EXCEPT ![p] =
                        Done(p, @, ErrorResponse(200, "Failed to download codebase"))]
          /\ UNCHANGED <<fs, nDownloads, tasks>>
    /\ UNCHANGED <<hist, nChats, index, log, parse>>

----------------------------------------------------------------------------
(* GET /delete, src/unnamed/part_000:112-141 *)

DeleteGET_Start(p, cookies) ==
    /\ ~Busy(p)
    /\ \E c \in cookies :
        LET r == [Idle EXCEPT !.route = "delete", !.cookie = c] IN
        req' = [req EXCEPT ![p] =
                   IF c = Undefined THEN Done(p, r, Unhandled)
                   ELSE IF ~existsSync(c)
                   THEN Done(p, r, ErrorResponse(400, "No codebase currently uploaded"))
                   ELSE [r EXCEPT !.pc = "rm"]]
    /\ UNCHANGED <<hist, nChats, fs, index, tasks, nDownloads, log, parse>>

\* await fsp.rm(codebasePath, { recursive: true, force: true })
DeleteGET_Rm(p) ==
    /\ req[p].route = "delete" /\ req[p].pc = "rm"
    /\ fs' = [fs EXCEPT ![req[p].cookie.value] = "none"]
    /\ req' = [req EXCEPT ![p].pc = "deleteAll"]
    /\ UNCHANGED <<hist, nChats, index, tasks, nDownloads, log, parse>>

\* fault variant: the whole index is cleared
deleteAllNamespaces(ns) == [n \in Namespaces |-> {}]

\* index.namespace(namespace).deleteAll()
deleteVectorsFromNamespace(ns) == [index EXCEPT ![ns] = {}]

\* await pinecone.deleteVectorsFromNamespace(): resolves, or rejects into the catch
DeleteGET_DeleteAll(p) ==
    /\ req[p].route = "delete" /\ req[p].pc = "deleteAll"
    /\ \/ /\ index' = deleteVectorsFromNamespace(NamespaceOf(req[p].cookie))
          /\ req' = [req EXCEPT ![p] = Done(p, [@ EXCEPT !.calls = @ \cup {"pinecone.deleteAll"}],
                                            TextResponse(200, "Codebase deleted"))]
       \/ /\ req' = [req EXCEPT ![p] = Done(p, [@ EXCEPT !.calls = @ \cup {"pinecone.deleteAll"}],
                                            ErrorResponse(500, "Failed to delete codebase"))]
          /\ UNCHANGED index
    /\ UNCHANGED <<hist, nChats, fs, tasks, nDownloads, log, parse>>

DeleteGET(p) == DeleteGET_Rm(p) \/ DeleteGET_DeleteAll(p)

----------------------------------------------------------------------------
(* POST /database, src/app/database/route.js: the codebase search *)

NothingFound == "No files relevant to your query could be found."

SearchPrompts == {"", "where is f"}

SearchPOST_Start(p, cookies) ==
    /\ ~Busy(p)
    /\ \E c \in cookies, prompt \in SearchPrompts :
        LET r == [Idle EXCEPT !.route = "search", !.cookie = c, !.prompt = prompt] IN
        req' = [req EXCEPT ![p] =
                   IF c = Undefined THEN Done(p, r, Unhandled)
                   ELSE IF ~existsSync(c)
                   THEN Done(p, r, TextResponse(200,
                            "You haven't uploaded a codebase yet! Please try again."))
                   ELSE IF prompt = "" THEN Done(p, r, ErrorResponse(400, "Input is required"))
                   ELSE [r EXCEPT !.pc = "embed"]]
    /\ UNCHANGED <<hist, nChats, fs, index, tasks, nDownloads, log, parse>>

\* const embed = await generateEmbeddings(userInput)
SearchPOST_Embed(p) ==
    /\ req[p].route = "search" /\ req[p].pc = "embed"
    /\ \E e \in generateEmbeddings(req[p].prompt) :
        req' = [req EXCEPT ![p] = [@ EXCEPT !.pc = "query", !.embedding = e,
                                            !.calls = @ \cup {"openai.embeddings"}]]
    /\ UNCHANGED <<hist, nChats, fs, index, tasks, nDownloads, log, parse>>

\* fault variant: the catch block answers that nothing was found
SearchSwallowed == FilesResponse("No files relevant to your query could be found.", <<>>)

SearchError == ErrorResponse(500, "Error querying user input")

\* fault variant: the empty result is not told apart
NoMatchesNever(m) == FALSE

\* files.matches.length == 0
NoMatches(m) == Len(m) = 0

\* const files = await pinecone.similaritySearch(embed); no matches: the canned answer
SearchPOST_Query(p) ==
    /\ req[p].route = "search" /\ req[p].pc = "query"
    /\ LET r == [req[p] EXCEPT !.queried = TRUE, !.calls = @ \cup {"pinecone.query"}] IN
       \/ \E m \in similaritySearch(req[p].embedding, NamespaceOf(req[p].cookie), TopK) :
            req' = [req EXCEPT ![p] =
                       IF NoMatches(m)
                       THEN Done(p, r, FilesResponse(NothingFound, <<>>))
                       ELSE [r EXCEPT !.pc = "readFiles", !.matches = m]]
       \/ req' = [req EXCEPT ![p] = Done(p, [r EXCEPT !.pineconeError = TRUE], SearchError)]
    /\ UNCHANGED <<hist, nChats, fs, index, tasks, nDownloads, log, parse>>

\* fault variant: the text of each match's file, as often as it is matched
RECURSIVE FilesToSendAll(_, _)
FilesToSendAll(matches, sent) ==
    IF matches = <<>> THEN sent
    ELSE FilesToSendAll(Tail(matches),
                        Append(sent, FileText(Head(matches).metadata.filepath)))

\* the text of each match's file, each text once, in match order
RECURSIVE FilesToSend(_, _)
FilesToSend(matches, sent) ==
    IF matches = <<>> THEN sent
    ELSE LET code == FileText(Head(matches).metadata.filepath) IN
         FilesToSend(Tail(matches),
                     IF \E k \in DOMAIN sent : sent[k] = code THEN sent
                     ELSE Append(sent, code))

\* the relative path a stored filepath names: (seed, path under the codebase directory)
StoredFile(filepath) ==
    CHOOSE sr \in Seeds \X UNION {FilesOf(u) : u \in Urls \ {""}} :
        Join(CodebasePath(CookieObject(sr[1])), sr[2]) = filepath

\* for each match: await readCodeFromFile(metadata.filepath); a missing file rejects
SearchPOST_ReadFiles(p) ==
    /\ req[p].route = "search" /\ req[p].pc = "readFiles"
    /\ LET m == req[p].matches
           readable == \A k \in DOMAIN m :
                          LET sr == StoredFile(m[k].metadata.filepath) IN
                          FileExists(sr[1], sr[2])
       IN req' = [req EXCEPT ![p] =
                     IF readable
                     THEN Done(p, @, FilesResponse(
                              "Here are the most relevant files to your query:",
                              FilesToSend(m, <<>>)))
                     ELSE Done(p, @, SearchError)]
    /\ UNCHANGED <<hist, nChats, fs, index, tasks, nDownloads, log, parse>>

SearchPOST(p) == SearchPOST_Embed(p) \/ SearchPOST_Query(p) \/ SearchPOST_ReadFiles(p)

----------------------------------------------------------------------------

Init ==
    /\ hist = [k \in Keys |-> <<>>]
    /\ req = [p \in Slots |-> Idle]
    /\ nChats = 0
    /\ fs = [s \in Seeds |-> "none"]
    /\ index = [ns \in Namespaces |-> {}]
    /\ tasks = {}
    /\ nDownloads = 0
    /\ log = <<>>
    /\ parse = NoParse

Next ==
    \/ Sequential /\ MemoryGET_Start(1, Cookies)
    \/ Sequential /\ ChatPOST_Start(1, Cookies)
    \/ Sequential /\ GroundedPOST_Start(1, Cookies)
    \/ MemoryGET(1)
    \/ ChatPOST(1)
    \/ GroundedPOST(1)

Spec == Init /\ [][Next]_vars

\* the parser on each of the source files
ParserInit ==
    /\ hist = [k \in Keys |-> <<>>]
    /\ req = [p \in Slots |-> Idle]
    /\ nChats = 0
    /\ fs = [s \in Seeds |-> "none"]
    /\ index = [ns \in Namespaces |-> {}]
    /\ tasks = {}
    /\ nDownloads = 0
    /\ log = <<>>
    /\ \E file \in SourceFiles : parse = [NoParse EXCEPT !.file = file]

ParserNext == ParseFile

ParserSpec == ParserInit /\ [][ParserNext]_vars

\* one session, a store that can reject any command
FaultNext ==
    \/ Sequential /\ MemoryGET_Start(1, {CookieObject("1")})
    \/ Sequential /\ ChatPOST_Start(1, {CookieObject("1")})
    \/ Sequential /\ GroundedPOST_Start(1, {CookieObject("1")})
    \/ MemoryGET(1)
    \/ ChatPOST(1)
    \/ GroundedPOST(1)
    \/ MemoryGET_Catch(1)
    \/ ChatPOST_Catch(1)
    \/ GroundedPOST_Catch(1)

FaultSpec == Init /\ [][FaultNext]_vars

\* one session: chat with code context around the life of a codebase that holds no
\* source file
LifecycleNext ==
    \/ Sequential /\ GroundedPOST_Start(1, {CookieObject("1")})
    \/ Sequential /\ DownloadPOST_Start(1, {CookieObject("1")}, {"http://host/docs.zip"})
    \/ Sequential /\ DeleteGET_Start(1, {CookieObject("1")})
    \/ GroundedPOST(1)
    \/ DownloadPOST_Fetch(1)
    \/ DeleteGET(1)
    \/ \E t \in tasks : TraverseDirectory(t)

LifecycleSpec == Init /\ [][LifecycleNext]_vars

\* one session: an archive with three source files, one of them unreadable, indexed in
\* the background while the session searches
BatchNext ==
    \/ Sequential /\ DownloadPOST_Start(1, {CookieObject("1")}, {"http://host/lib.zip"})
    \/ Sequential /\ SearchPOST_Start(1, {CookieObject("1")})
    \/ DownloadPOST_Fetch(1)
    \/ SearchPOST(1)
    \/ \E t \in tasks : TraverseDirectory(t)
    \/ \E t \in tasks : ProcessFile_Embed(t)
    \/ \E t \in tasks : ProcessFile_Upsert(t)
    \/ \E t \in tasks : ProcessFile_Catch(t)

BatchSpec == Init /\ [][BatchNext]_vars

\* the same, every pending callback of the background indexing eventually run: the
\* fs.readdir callbacks, and the continuations of processFile after the embedding
\* calls, after the upsert call and after a rejection
FairBatchSpec ==
    /\ BatchSpec
    /\ WF_vars(\E t \in tasks : TraverseDirectory(t))
    /\ WF_vars(\E t \in tasks : ProcessFile_Embed(t))
    /\ WF_vars(\E t \in tasks : ProcessFile_Upsert(t))
    /\ WF_vars(\E t \in tasks : ProcessFile_Catch(t))

\* one session that searches and chats with code context while its codebase is indexed
RetrievalNext ==
    \/ Sequential /\ DownloadPOST_Start(1, {CookieObject("1")}, {"http://host/kit.zip"})
    \/ Sequential /\ SearchPOST_Start(1, {CookieObject("1")})
    \/ Sequential /\ GroundedPOST_Start(1, {CookieObject("1")})
    \/ DownloadPOST_Fetch(1)
    \/ SearchPOST(1)
    \/ GroundedPOST(1)
    \/ \E t \in tasks : TraverseDirectory(t)
    \/ \E t \in tasks : ProcessFile_Embed(t)
    \/ \E t \in tasks : ProcessFile_Upsert(t)

RetrievalSpec == Init /\ [][RetrievalNext]_vars

\* one session: an archive whose two .js files each declare a function f, and a .ts file
NamesNext ==
    \/ Sequential /\ DownloadPOST_Start(1, {CookieObject("1")}, {"http://host/web.zip"})
    \/ DownloadPOST_Fetch(1)
    \/ \E t \in tasks : TraverseDirectory(t)
    \/ \E t \in tasks : ProcessFile_Embed(t)
    \/ \E t \in tasks : ProcessFile_Upsert(t)

NamesSpec == Init /\ [][NamesNext]_vars

\* the list after n chat requests sent one after the other, each answered with a
\* usable reply: two pushes per request, then the trim
RECURSIVE SerialWindow(_)
SerialWindow(n) ==
    IF n = 0 THEN <<>>
    ELSE LET reply  == [choices |-> <<[content |-> Content(TRUE, "r" \o ToString(n))]>>]
             pushed == lPush(lPush(SerialWindow(n - 1), UserTurn("q" \o ToString(n))),
                             AssistantTurn(reply))
         IN IF lLen(pushed) >= HistoryLimit THEN rPop(rPop(pushed)) ELSE pushed

\* one session that has had all but three of its chat requests answered, one after the
\* other
RaceInit ==
    /\ nChats = MaxChats - 3
    /\ hist = [k \in Keys |-> IF k = LegacyChatsKey(CookieObject("1"))
                               THEN SerialWindow(nChats) ELSE <<>>]
    /\ req = [p \in Slots |-> Idle]
    /\ fs = [s \in Seeds |-> "none"]
    /\ index = [ns \in Namespaces |-> {}]
    /\ tasks = {}
    /\ nDownloads = 0
    /\ log = <<>>
    /\ parse = NoParse

\* the three further requests of the session can overlap
RaceNext ==
    \/ \E p \in Slots : ChatPOST_Start(p, {CookieObject("1")})
    \/ \E p \in Slots : ChatPOST(p)

RaceSpec == RaceInit /\ [][RaceNext]_vars

\* one session whose ensureExists calls and chat requests can overlap
EnsureNext ==
    \/ \E p \in Slots : MemoryGET_Start(p, {CookieObject("1")})
    \/ \E p \in Slots : nChats < MaxOverlap /\ ChatPOST_Start(p, {CookieObject("1")})
    \/ \E p \in Slots : MemoryGET(p)
    \/ \E p \in Slots : ChatPOST(p)

EnsureSpec == Init /\ [][EnsureNext]_vars

\* one session whose download requests can overlap
OverlapNext ==
    \/ \E p \in Slots :
          DownloadPOST_Start(p, {CookieObject("1")}, {"", "http://host/docs.zip"})
    \/ \E p \in Slots : DownloadPOST_Fetch(p)
    \/ \E t \in tasks : TraverseDirectory(t)

OverlapSpec == Init /\ [][OverlapNext]_vars

IndexNext ==
    \/ Sequential /\ DownloadPOST_Start(1, Cookies, {"", "http://host/proj.zip"})
    \/ Sequential /\ DeleteGET_Start(1, Cookies)
    \/ Sequential /\ SearchPOST_Start(1, Cookies)
    \/ DownloadPOST_Fetch(1)
    \/ DeleteGET(1)
    \/ SearchPOST(1)
    \/ \E t \in tasks : TraverseDirectory(t)
    \/ \E t \in tasks : ProcessFile_Embed(t)
    \/ \E t \in tasks : ProcessFile_Upsert(t)

IndexSpec == Init /\ [][IndexNext]_vars

----------------------------------------------------------------------------
(* Properties of the chat history, checked under Spec *)

Range(seq) == {seq[i] : i \in DOMAIN seq}

\* the keys the routes use for the session that holds cookie c
SessionKeys(c) == {LegacyChatsKey(c), GroundedChatsKey(c)}

\* C1: with the chat requests of a session sent one after the other, every history
\* list holds at most 6 entries whenever no request is in progress, whatever the
\* replies were (usable, empty or invalid).
C1_HistoryBounded == Sequential => \A k \in Keys : Len(hist[k]) <= HistoryLimit

\* C2: with requests sent one after the other, whenever no request is in progress a
\* list that holds the sentinel holds nothing else; and a chat request that read the
\* list as the lone sentinel leaves, after pushing its user turn and removing the
\* sentinel, exactly that user turn.
C2_SentinelAlone ==
    /\ Sequential => \A k \in Keys : Sentinel \in Range(hist[k]) => hist[k] = <<Sentinel>>
    /\ \A p \in Slots :
          req[p].pc = "lPushReply" /\ req[p].chats = <<Sentinel>>
             => hist[req[p].key] = <<UserTurn(req[p].prompt)>>

\* ensureExists, then the first user turn: the list is that turn alone
C2_Witness ==
    \E p \in Slots :
       /\ req[p].pc = "lPushReply" /\ req[p].chats = <<Sentinel>>
       /\ hist[req[p].key] = <<UserTurn(req[p].prompt)>>

\* C7: the list a chat request of a session works on is the list ensureExists
\* creates for that session, and it is the list of no other session.
C7_OwnList ==
    \A p \in Slots :
       req[p].route \in {"memory", "chat", "grounded"} /\ req[p].key # ""
          => /\ req[p].key = LegacyChatsKey(req[p].cookie)
             /\ \A c \in Cookies \ {Undefined, req[p].cookie} : req[p].key \notin SessionKeys(c)

\* C10: ensureExists is idempotent: a call that completes creates the list with the
\* sentinel as its one entry when the list did not exist, and changes no list
\* otherwise; no other step of the call changes a list.
C10_EnsureExistsIdempotent ==
    [][\A p \in Slots :
          req[p].route = "memory" /\ Busy(p) /\ req'[p] # req[p]
             => hist' = IF req'[p].pc = "done" /\ hist[req[p].key] = <<>>
                        THEN [hist EXCEPT ![req[p].key] = <<Sentinel>>]
                        ELSE hist]_vars

\* a second call on the placeholder list answered "present" and left it alone
C10_Witness ==
    \E p \in Slots :
       /\ req[p].route = "memory" /\ req[p].pc = "done"
       /\ req[p].resp.text = "Chatbot memory present"
       /\ hist[req[p].key] = <<Sentinel>>

\* the routes that keep a history
ChatRoutes == {"chat", "grounded"}

\* C11: the list reads most-recent-first: when a chat request has answered with the
\* reply r to the prompt p, the list starts with "Assistant: r", then "User: p"; and
\* a list only ever changes by a new entry at its head, the removal of the
\* sentinel, or the removal of its last entry, so the entries behind the head stay
\* in reverse order of their append.
C11_MostRecentFirst ==
    /\ [](\A p \in Slots :
            /\ req[p].route \in ChatRoutes /\ req[p].pc = "done"
            /\ req[p].resp.status = 200 /\ req[p].resp.text # ""
            => /\ Len(hist[req[p].key]) >= 2
               /\ hist[req[p].key][1] = "Assistant: " \o req[p].resp.text
               /\ hist[req[p].key][2] = UserTurn(req[p].prompt))
    /\ [][\A k \in Keys :
             hist'[k] # hist[k] =>
                \/ Len(hist'[k]) = Len(hist[k]) + 1 /\ Tail(hist'[k]) = hist[k]
                \/ hist'[k] = RemoveFirst(hist[k], Sentinel)
                \/ hist'[k] = SubSeq(hist[k], 1, Len(hist[k]) - 1)]_vars

\* a second answered request: its two turns lie on top of the two of the first
C11_Witness ==
    \E p \in Slots :
       /\ req[p].route \in ChatRoutes /\ req[p].pc = "done"
       /\ req[p].resp.status = 200 /\ req[p].resp.text = "r2"
       /\ hist[req[p].key] = <<"Assistant: r2", "User: q2", "Assistant: r1", "User: q1">>

----------------------------------------------------------------------------
(* Property of the history with a failing store, checked under FaultSpec *)

\* C12: a chat request changes no list before its completion call has returned
\* (so a failed completion leaves the window as it was); the reply's entry is
\* pushed right on top of the user's turn; and a request that ends without its
\* user turn in the window answers with an error.
C12_TurnStoredOrError ==
    /\ [](\A p \in Slots :
            req[p].route \in ChatRoutes =>
               /\ req[p].pc = "lLen" =>
                     /\ hist[req[p].key][2] = UserTurn(req[p].prompt)
                     /\ hist[req[p].key][1] \in
                           {IF Usable(req[p].reply) THEN AssistantTurn(req[p].reply)
                                                    ELSE ErrorTurn}
               /\ req[p].pc = "done" /\ req[p].resp.status < 400 =>
                     /\ req[p].key # ""
                     /\ UserTurn(req[p].prompt) \in Range(hist[req[p].key]))
    /\ [][\A p \in Slots :
             req[p].route \in ChatRoutes /\ "openai.chat" \notin req[p].calls
                => hist' = hist]_vars

\* the push of the user's turn was rejected: an error answer, the turn not stored
C12_Witness ==
    \E p \in Slots :
       /\ req[p].route \in ChatRoutes /\ req[p].pc = "done"
       /\ "openai.chat" \in req[p].calls
       /\ req[p].resp = CatchResponse
       /\ UserTurn(req[p].prompt) \notin Range(hist[req[p].key])

----------------------------------------------------------------------------
(* Properties of the parser, checked under ParserSpec *)

RECURSIVE Descendants(_)
Descendants(node) == {node} \cup UNION {Descendants(node.kids[i]) : i \in DOMAIN node.kids}

NodesOf(file) == Descendants(Program(file))

NamesIn(units) == {units[i].function_name : i \in DOMAIN units}

\* a top-level statement that is a named function: a declaration, or a function
\* bound to a variable
IsFunctionStatement(st) ==
    \/ st.type = "function_declaration"
    \/ /\ st.type = "lexical_declaration"
       /\ childForFieldName(st.kids[2], "value").type \in {"arrow_function", "function_expression"}

StatementName(st) ==
    IF st.type = "lexical_declaration"
    THEN Text(childForFieldName(st.kids[2], "name"))
    ELSE Text(childForFieldName(st, "name"))

UniquelyNamed(file) ==
    \A i, j \in DOMAIN file :
       i # j /\ (IsFunctionStatement(file[i]) \/ file[i].type = "class_declaration")
             /\ (IsFunctionStatement(file[j]) \/ file[j].type = "class_declaration")
          => StatementName(file[i]) # StatementName(file[j])

\* C13: a file whose top-level named functions and classes have distinct names
\* gives as many function units as it has top-level named functions and as many
\* class units as it has class declarations.
C13_ExactUnitCounts ==
    parse.parsed /\ UniquelyNamed(parse.file) =>
       /\ Len(parse.functions) =
             Cardinality({i \in DOMAIN parse.file : IsFunctionStatement(parse.file[i])})
       /\ Len(parse.classes) =
             Cardinality({i \in DOMAIN parse.file : parse.file[i].type = "class_declaration"})

\* C14: in a file whose only functions are declarations, the id of every function
\* unit is the declared name of one of the declarations.
C14_DeclaredName ==
    /\ parse.parsed
    /\ \A n \in NodesOf(parse.file) : n.type \notin {"arrow_function", "function_expression"}
    => NamesIn(parse.functions) \subseteq
          {Text(childForFieldName(n, "name")) :
              n \in {d \in NodesOf(parse.file) : d.type = "function_declaration"}}

\* the ids the naming rule gives the arrow functions and function expressions below
\* a node, in source order: the binding's name, else the property's key, else none
RECURSIVE RuleNames(_, _)
RECURSIVE RuleNamesOfKids(_, _)
RuleNamesOfKids(node, i) ==
    IF i > Len(node.kids) THEN <<>>
    ELSE RuleNames(node.kids[i], node) \o RuleNamesOfKids(node, i + 1)

RuleNames(node, parent) ==
    (IF node.type \notin {"arrow_function", "function_expression"} THEN <<>>
     ELSE IF parent.type = "variable_declarator"
     THEN <<Text(childForFieldName(parent, "name"))>>
     ELSE IF parent.type = "pair" THEN <<Text(childForFieldName(parent, "key"))>>
     ELSE <<>>) \o RuleNamesOfKids(node, 1)

\* C15: in a file without function declarations, the function units are those of
\* the arrow functions and function expressions that are bound to a variable or are
\* the value of an object property, named by the binding or by the key, in source
\* order; the others give no unit.
C15_ExpressionNames ==
    /\ parse.parsed
    /\ \A n \in NodesOf(parse.file) : n.type # "function_declaration"
    => [i \in DOMAIN parse.functions |-> parse.functions[i].function_name]
          = RuleNames(Program(parse.file), Null)

\* C16: every function unit has a name that is neither empty nor "anonymous", every
\* class unit has a name, and a file with a named function and a class declaration
\* gives at least one unit of each kind.
C16_NamedUnits ==
    parse.parsed =>
       /\ \A i \in DOMAIN parse.functions :
             parse.functions[i].function_name \notin {"", "anonymous"}
       /\ \A i \in DOMAIN parse.classes : parse.classes[i].class_name # ""
       /\ /\ \E i \in DOMAIN parse.file : IsFunctionStatement(parse.file[i])
          /\ \E i \in DOMAIN parse.file : parse.file[i].type = "class_declaration"
          => parse.functions # <<>> /\ parse.classes # <<>>

\* the class declarations below a node, in source order
RECURSIVE ClassDeclarations(_)
RECURSIVE ClassDeclarationsOfKids(_, _)
ClassDeclarationsOfKids(node, i) ==
    IF i > Len(node.kids) THEN <<>>
    ELSE ClassDeclarations(node.kids[i]) \o ClassDeclarationsOfKids(node, i + 1)

ClassDeclarations(node) ==
    (IF node.type = "class_declaration" THEN <<node>> ELSE <<>>)
       \o ClassDeclarationsOfKids(node, 1)

----------------------------------------------------------------------------
(* Properties of the vector index, checked under IndexSpec *)

\* the namespace the specification keys by the session identifier
SessionNamespace(seed) == "codebase" \o seed

DeleteSucceeded(p) ==
    req[p].route = "delete" /\ req[p].pc = "done" /\ req[p].resp.status = 200

\* C3: once a deletion has answered success, a query on the session's namespace
\* finds no match for as long as no other request has been made, background
\* indexing tasks or not.
C3_EmptyAfterDelete ==
    \A p \in Slots :
       DeleteSucceeded(p) =>
          QueryResults(SessionNamespace(req[p].cookie.value), TopK) = {<<>>}

\* the items processFile is to upsert for its file: one for each parsed unit whose
\* embedding call gave a vector, carrying the unit's name, kind, path and that vector
ExpectedItems(t) ==
    LET parsed == parseCodeWithTreeSitter(t.cookie, t.path) IN
    {[id |-> parsed.functions[k].function_name, values |-> Vector(parsed.functions[k].code),
      metadata |-> [filepath |-> parsed.functions[k].filepath, type |-> "function"]] :
        k \in {j \in DOMAIN parsed.functions : t.functions[j].embedding # Undefined}}
    \cup
    {[id |-> parsed.classes[k].class_name, values |-> Vector(parsed.classes[k].code),
      metadata |-> [filepath |-> parsed.classes[k].filepath, type |-> "class"]] :
        k \in {j \in DOMAIN parsed.classes : t.classes[j].embedding # Undefined}}

C5_NeverIndexed ==
    \A p \in Slots :
       /\ req[p].route = "search" /\ req[p].pc = "done"
       /\ req[p].cookie # Undefined /\ req[p].prompt # ""
       /\ req[p].resp.status = 200
       /\ index[SessionNamespace(req[p].cookie.value)] = {}
       => req[p].resp = FilesResponse(NothingFound, <<>>)

\* C5: a search whose query found the namespace without a record answers the canned
\* "No files relevant to your query could be found." with no file, and makes no
\* chat-completion call; a search of a session without a codebase directory is
\* answered "You haven't uploaded a codebase yet! Please try again." and makes no
\* call at all.
C5_NothingFound ==
    \A p \in Slots :
       req[p].route = "search" /\ req[p].pc = "done" /\ req[p].resp.status = 200 =>
          /\ req[p].queried /\ index[SessionNamespace(req[p].cookie.value)] = {}
                => /\ req[p].resp = FilesResponse(NothingFound, <<>>)
                   /\ "openai.chat" \notin req[p].calls
          /\ ~req[p].queried
                => /\ req[p].resp = TextResponse(200,
                          "You haven't uploaded a codebase yet! Please try again.")
                   /\ req[p].calls = {}

\* the query had a vector, the namespace had no record: the canned answer
C5_Witness ==
    \E p \in Slots :
       /\ req[p].route = "search" /\ req[p].pc = "done"
       /\ req[p].embedding # Undefined /\ req[p].queried
       /\ index[SessionNamespace(req[p].cookie.value)] = {}
       /\ req[p].resp = FilesResponse(NothingFound, <<>>)

\* C6: a request whose query embedding failed issues no vector query and ends with
\* an error response.
C6_EmbeddingFailureIsError ==
    \A p \in Slots :
       /\ req[p].route \in {"search", "grounded"}
       /\ "openai.embeddings" \in req[p].calls /\ req[p].embedding = Undefined
       => /\ ~req[p].queried
          /\ req[p].pc = "done" => req[p].resp.status >= 400

\* C8: a namespace changes only by the upsert of a task, or the deleteAll of a
\* request, of the session it belongs to; a query returns records of the requesting
\* session's namespace; and a deleteAll on a namespace without records changes
\* nothing.
C8_OwnNamespace ==
    [][/\ \A ns \in Namespaces :
             index'[ns] # index[ns] =>
                \/ \E t \in tasks \ tasks' :
                      /\ t.kind = "file" /\ t.pc = "upsert"
                      /\ ns = SessionNamespace(t.cookie.value)
                \/ \E p \in Slots :
                      /\ req[p].route = "delete" /\ req[p].pc = "deleteAll"
                      /\ req'[p].pc = "done"
                      /\ ns = SessionNamespace(req[p].cookie.value)
                      /\ index[ns] # {}
       /\ \A p \in Slots :
             req[p].pc = "query" /\ req'[p].pc = "readFiles" =>
                Range(req'[p].matches) \subseteq index[SessionNamespace(req[p].cookie.value)]]_vars

\* session 1 deleted its codebase while the records of session 2 stayed
C8_Witness ==
    \E p \in Slots :
       /\ DeleteSucceeded(p) /\ req[p].cookie = CookieObject("1")
       /\ index[SessionNamespace("1")] = {}
       /\ index[SessionNamespace("2")] # {}

----------------------------------------------------------------------------
(* Property of a codebase's life, checked under LifecycleSpec *)

\* C9: when a deletion has answered success, the history lists of the session are
\* empty.
C9_HistoryCleared ==
    \A p \in Slots :
       DeleteSucceeded(p) => \A k \in SessionKeys(req[p].cookie) : hist[k] = <<>>

----------------------------------------------------------------------------
(* Properties of the background indexing of one archive, checked under BatchSpec *)

\* task t of this state has ended in the next one
Ended(t) ==
    /\ t \in tasks
    /\ ~\E u \in tasks' : u.kind = t.kind /\ u.gen = t.gen /\ u.path = t.path

\* the files of directory dir of the codebase that indexing is to process
EligibleFiles(seed, dir) ==
    {Join(dir, e.name \o e.ext) :
        e \in {x \in Tree(fs[seed])[dir] : ~x.isDirectory /\ IsSourceFile(x)}}

\* C18: when the processing of one file ends, it ends alone: either its failure is
\* logged and the index is left as it was, or its units with a vector are in the
\* session's namespace and the records of the other files are still there; every
\* other task is still pending, and reading a directory starts the processing of
\* each of its eligible files
C18_FailureIsolated ==
    [][\A t \in tasks :
          /\ (t.kind = "file" /\ Ended(t)) =>
                LET ns == NamespaceOf(t.cookie) IN
                /\ tasks \ {t} \subseteq tasks'
                /\ \/ /\ log' = <<"Error processing", t.path>>
                      /\ index' = index
                   \/ /\ log' = log
                      /\ Range(UpsertPayload(t)) \subseteq index'[ns]
                      /\ index[ns] \subseteq index'[ns]
                      /\ \A n \in Namespaces \ {ns} : index'[n] = index[n]
          /\ (t.kind = "readdir" /\ Ended(t) /\ log' = log) =>
                \A f \in EligibleFiles(t.cookie.value, t.path) :
                   \E u \in tasks' : u.kind = "file" /\ u.gen = t.gen /\ u.path = f
      ]_vars

\* the unreadable file's failure is logged last, the other two files are indexed
C18_Witness ==
    /\ tasks = {}
    /\ log = <<"Error processing", "lib/bad.js">>
    /\ {r.id : r \in index[NamespaceOf(CookieObject("1"))]} = {"f", "g"}

\* C19: the download request answers without any indexing done: its last step leaves
\* the index as it is and the traversal pending; and a search whose query returns
\* while indexing is pending gets matches out of what the namespace holds then, or
\* the answer that nothing was found, or the error of a failed query
C19_ResponseBeforeIndexing ==
    [][\A p \in Slots :
          /\ (req[p].route = "download" /\ req[p].pc = "axios" /\ req'[p].pc = "done") =>
                /\ index' = index
                /\ req'[p].resp = TextResponse(200, "Codebase downloaded and extracted")
                      => /\ DirTask(nDownloads', req[p].cookie, "") \in tasks'
                         /\ \A t \in tasks' : t.gen = nDownloads' => t.kind = "readdir"
          /\ (req[p].route = "search" /\ req[p].pc = "query" /\ req'[p] # req[p]) =>
                LET stored == index[NamespaceOf(req[p].cookie)] IN
                \/ req'[p].pc = "done" /\ req'[p].resp = SearchError
                \/ /\ req'[p].pc = "done"
                   /\ req'[p].resp = FilesResponse(NothingFound, <<>>)
                \/ /\ req'[p].pc = "readFiles"
                   /\ req'[p].matches # <<>>
                   /\ Range(req'[p].matches) \subseteq stored
      ]_vars

\* a search answered with files out of a part of the codebase, indexing still pending
C19_Witness ==
    /\ req[1].route = "search" /\ req[1].pc = "done"
    /\ req[1].resp.status = 200 /\ req[1].queried
    /\ req[1].resp # FilesResponse(NothingFound, <<>>)
    /\ Cardinality(index[NamespaceOf(CookieObject("1"))]) = 1
    /\ \E t \in tasks : t.kind = "file" /\ t.pc \in {"embed", "upsert"}

----------------------------------------------------------------------------
(* Property of overlapping downloads, checked under OverlapSpec *)

\* C20: a download request extracts an archive and starts indexing only when the
\* session's codebase directory does not exist
C20_OneCodebase ==
    [][\A p \in Slots :
          (req[p].route = "download" /\ req[p].pc = "axios"
             /\ (nDownloads' # nDownloads \/ tasks' # tasks \/ fs' # fs))
          => ~existsSync(req[p].cookie)
      ]_vars

----------------------------------------------------------------------------
(* Properties of the indexing of files with equal unit names, checked under NamesSpec *)

\* the files of the archives whose name ends in .js
JsFiles ==
    UNION {UNION {{Join(d, e.name \o e.ext) :
                     e \in {x \in Tree(u)[d] : ~x.isDirectory /\ x.ext = ".js"}} :
                  d \in DirsOf(u)} : u \in Urls \ {""}}

\* C21: only files whose name ends in .js are processed: every file task is the task
\* of such a file, and every record of the index carries the path of such a file
C21_OnlyJsFiles ==
    /\ \A t \in tasks : t.kind = "file" => t.path \in JsFiles
    /\ \A ns \in Namespaces : \A r \in index[ns] :
          \E c \in Cookies \ {Undefined} : \E f \in JsFiles :
             r.metadata.filepath = Join(CodebasePath(c), f)

----------------------------------------------------------------------------
(* Properties of search and chat with code context, checked under RetrievalSpec *)

\* C22 as stated: a request whose vector-index query failed ends with an error
\* response and nothing else
C22_QueryFailureIsError ==
    \A p \in Slots :
       req[p].pineconeError => req[p].pc = "done" /\ req[p].resp.error # ""

\* C22: a search whose vector-index query failed has ended with its 500 response;
\* a chat with code context whose query failed goes on with no matches, and an error
\* it ends with is the error of a later step
C22_SearchFailsChatGoesOn ==
    \A p \in Slots :
       req[p].pineconeError =>
          /\ req[p].route \in {"search", "grounded"}
          /\ req[p].route = "search" =>
                /\ req[p].pc = "done"
                /\ req[p].resp.status = 500 /\ req[p].resp.error # ""
          /\ req[p].route = "grounded" =>
                /\ req[p].matches = <<>>
                /\ req[p].pc = "done" =>
                      \/ req[p].resp.status = 200 /\ req[p].resp.error = ""
                      \/ req[p].resp \in {ErrorResponse(500, "Something went wrong"),
                                          ErrorResponse(500, "Invalid response from API")}

\* a failed query of a search, answered 500, with the codebase indexed
C22_Witness ==
    /\ req[1].route = "search" /\ req[1].pineconeError
    /\ req[1].resp.status = 500
    /\ index[NamespaceOf(CookieObject("1"))] # {}

\* C23: the files list a search returns holds the text of the file of every match,
\* holds no text twice, and is no longer than the list of matches, which holds at
\* most 3
C23_FilesOfMatches ==
    [][\A p \in Slots :
          (req[p].route = "search" /\ req[p].pc = "readFiles"
             /\ req'[p].pc = "done" /\ req'[p].resp.hasFiles)
          => LET m == req[p].matches
                 files == req'[p].resp.files
             IN /\ \A k \in DOMAIN m :
                      \E i \in DOMAIN files : files[i] = FileText(m[k].metadata.filepath)
                /\ \A i, j \in DOMAIN files : files[i] = files[j] => i = j
                /\ Len(files) <= Len(m)
                /\ Len(m) <= 3
      ]_vars

\* a search answered with the two texts of three matches, four records being stored
C23_Witness ==
    /\ req[1].route = "search" /\ req[1].pc = "done"
    /\ req[1].resp.hasFiles /\ Len(req[1].resp.files) = 2
    /\ Cardinality(index[NamespaceOf(CookieObject("1"))]) = 4
    /\ tasks = {}

\* C24: the system message of a chat request whose search returned matches holds, for
\* every match, its name, kind and path and the source text of its file
C24_ContextHoldsSource ==
    \A p \in Slots :
       (req[p].route = "grounded" /\ "openai.chat" \in req[p].calls /\ Busy(p)) =>
          \A k \in DOMAIN req[p].matches :
             LET m == req[p].matches[k] IN
             \E i \in DOMAIN req[p].system.codeContext :
                LET block == req[p].system.codeContext[i] IN
                /\ block.Name = m.id
                /\ block.Type = m.metadata.type
                /\ block.File = m.metadata.filepath
                /\ block.Code = FileText(m.metadata.filepath)

----------------------------------------------------------------------------
(* Property of requests without a session cookie, checked under Spec *)

\* C25: a request without the seed cookie has ended with an error response, and has
\* called neither the embedding service, the vector index, the history store nor the
\* chat completion service
C25_NoSessionRejected ==
    \A p \in Slots :
       (req[p].route # "none" /\ req[p].cookie = Undefined)
       => /\ req[p].pc = "done"
          /\ req[p].resp.error # ""
          /\ req[p].calls = {}

----------------------------------------------------------------------------
(* Properties of the records of a namespace, checked under NamesSpec *)

\* the names of the units of the files of the session's codebase
UnitNames(seed) ==
    IF fs[seed] = "none" THEN {}
    ELSE UNION {{Parsed(f).functions[k].function_name : k \in DOMAIN Parsed(f).functions}
                \cup {Parsed(f).classes[k].class_name : k \in DOMAIN Parsed(f).classes} :
                   f \in FilesOf(fs[seed])}

\* C26: a namespace holds at most one record per id and no more records than there
\* are unit names in the codebase; after a file's upsert every record of its payload
\* is the stored record of its id, whatever another file stored under that id before
C26_LastUpsertWins ==
    /\ \A s \in Seeds :
          LET stored == index[NamespaceOf(CookieObject(s))] IN
          /\ \A r1, r2 \in stored : r1.id = r2.id => r1 = r2
          /\ Cardinality(stored) <= Cardinality(UnitNames(s))
    /\ [][\A t \in tasks :
             (t.kind = "file" /\ t.pc = "upsert" /\ Ended(t) /\ log' = log) =>
                \A v \in Range(UpsertPayload(t)) :
                   {r \in index'[NamespaceOf(t.cookie)] : r.id = v.id} = {v}
         ]_vars

\* both files have been upserted: the one record f is that of b.js, next to h
C26_Witness ==
    /\ tasks = {} /\ log = <<>>
    /\ LET stored == index[NamespaceOf(CookieObject("1"))] IN
       /\ {r.id : r \in stored} = {"f", "h"}
       /\ \E r \in stored :
             /\ r.id = "f"
             /\ r.values = Vector("function f(){return 1}")
             /\ r.metadata.filepath = Join(CodebasePath(CookieObject("1")), "web/b.js")

----------------------------------------------------------------------------
(* Property of the order of the indexing tasks, checked under BatchSpec *)

\* the record a unit of file rel of the session's codebase is stored as
RecordsOf(cookie, rel) ==
    LET units == parseCodeWithTreeSitter(cookie, rel) IN
    {[id |-> units.functions[k].function_name, values |-> Vector(units.functions[k].code),
      metadata |-> [filepath |-> units.functions[k].filepath, type |-> "function"]] :
        k \in DOMAIN units.functions}
    \cup
    {[id |-> units.classes[k].class_name, values |-> Vector(units.classes[k].code),
      metadata |-> [filepath |-> units.classes[k].filepath, type |-> "class"]] :
        k \in DOMAIN units.classes}

\* C27: with distinct unit names the order of the tasks does not show in the
\* namespace: a file's upsert adds its payload and changes nothing else, whatever the
\* other tasks have done, and the record stored under a name is the one record of
\* the file that declares it
C27_OrderIndependent ==
    /\ \A s \in Seeds :
          fs[s] # "none" =>
             \A r \in index[NamespaceOf(CookieObject(s))] :
                \E f \in FilesOf(fs[s]) : r \in RecordsOf(CookieObject(s), f)
    /\ [][\A t \in tasks :
             (t.kind = "file" /\ t.pc = "upsert" /\ Ended(t) /\ log' = log) =>
                LET ns == NamespaceOf(t.cookie) IN
                /\ index'[ns] = index[ns] \cup Range(UpsertPayload(t))
                /\ \A v \in Range(UpsertPayload(t)) : \A r \in index[ns] : r.id # v.id
         ]_vars

\* all tasks have ended and the namespace holds the units of both readable files
C27_Witness ==
    /\ tasks = {} /\ nDownloads = 1
    /\ index[NamespaceOf(CookieObject("1"))] =
          RecordsOf(CookieObject("1"), "lib/a.js") \cup RecordsOf(CookieObject("1"), "lib/u.js")
    /\ Cardinality(index[NamespaceOf(CookieObject("1"))]) = 2

----------------------------------------------------------------------------
(* Property of overlapping chat requests, checked under RaceSpec *)

\* the chat requests in progress on list k
InFlight(k) == {p \in Slots : req[p].route \in ChatRoutes /\ Busy(p) /\ req[p].key = k}

\* C28: a list holds more than 6 entries only while two chat requests of the session
\* are in progress on it; one request at a time never gets it there
C28_OverlapBreaksWindow ==
    \A k \in Keys : Len(hist[k]) > HistoryLimit => Cardinality(InFlight(k)) = 2

\* eight entries at once, two requests in progress
C28_Witness ==
    \E k \in Keys : Len(hist[k]) = 8 /\ Cardinality(InFlight(k)) = 2

\* both slots' requests were answered 200 and the user turn of neither is in the list:
\* each was removed by a trim, while one request at a time keeps its own turns
C28_TurnRemoved ==
    /\ \A p \in Slots : req[p].pc = "done" /\ req[p].resp.status = 200 /\ req[p].resp.text # ""
    /\ req[1].prompt # req[2].prompt
    /\ \A p \in Slots : UserTurn(req[p].prompt) \notin Range(hist[req[p].key])

----------------------------------------------------------------------------
(* Property of the trim with requests sent one after the other, checked under Spec *)

\* the entry a chat request pushes for the reply it got
ReplyTurn(r) == IF Usable(r.reply) THEN AssistantTurn(r.reply) ELSE ErrorTurn

\* C29: with requests sent one after the other, a request goes on to trim only when
\* the list holds at least 6 entries after its appends; the trim is two steps, each
\* removing the oldest entry and nothing else, and leaves the request's own two turns
\* at the head; apart from the sentinel's removal, nothing else removes an entry
C29_TrimOldestTwo ==
    [][\A p \in Slots :
          (req[p].route \in ChatRoutes /\ req'[p] # req[p]) =>
             LET k == req[p].key IN
             /\ req[p].pc = "lLen" =>
                   /\ hist' = hist
                   /\ req'[p].pc = "rPop1" =>
                         /\ Len(hist[k]) >= 6
                         /\ req'[p].chatLength = Len(hist[k])
             /\ req[p].pc \in {"rPop1", "rPop2"} =>
                   /\ hist[k] = Append(hist'[k], hist[k][Len(hist[k])])
                   /\ req'[p].pc = IF req[p].pc = "rPop1" THEN "rPop2" ELSE "done"
                   /\ Len(hist'[k]) = req[p].chatLength - (IF req[p].pc = "rPop1" THEN 1 ELSE 2)
                   /\ hist'[k][1] = ReplyTurn(req[p])
                   /\ hist'[k][2] = UserTurn(req[p].prompt)
             /\ (req[p].pc \notin {"rPop1", "rPop2", "lRem"} /\ k # "") =>
                   \/ hist'[k] = hist[k]
                   \/ Tail(hist'[k]) = hist[k]
      ]_vars

\* the third request has trimmed: the window is the turns of the second and the third
C29_Witness ==
    \E p \in Slots :
       /\ req[p].route \in ChatRoutes /\ req[p].pc = "done" /\ req[p].prompt = "q3"
       /\ req[p].key \in Keys
       /\ hist[req[p].key] = <<"Assistant: r3", "User: q3", "Assistant: r2", "User: q2">>

----------------------------------------------------------------------------
(* Property of the life of a history list, checked under EnsureSpec *)

\* the list holds a real turn
Populated(list) == \E i \in DOMAIN list : list[i] # Sentinel

\* C30: a list that holds a real turn does not become empty again, and the sentinel
\* is not put into it
C30_ForwardOnly ==
    [][\A k \in Keys :
          Populated(hist[k]) =>
             /\ hist'[k] # <<>>
             /\ Sentinel \in Range(hist'[k]) => Sentinel \in Range(hist[k])
      ]_vars

----------------------------------------------------------------------------
(* Property of the order of extraction, checked under ParserSpec *)

\* the positions of the nodes of a tree: the child numbers on the way from the root
RECURSIVE Paths(_)
Paths(node) ==
    {<<>>} \cup UNION {{<<i>> \o q : q \in Paths(node.kids[i])} : i \in DOMAIN node.kids}

RECURSIVE NodeAt(_, _)
NodeAt(node, path) ==
    IF path = <<>> THEN node ELSE NodeAt(node.kids[Head(path)], Tail(path))

ParentAt(root, path) ==
    IF path = <<>> THEN Null ELSE NodeAt(root, SubSeq(path, 1, Len(path) - 1))

\* a is before b in depth-first pre-order: an ancestor before its descendants, and
\* an earlier child's subtree before a later child's
Before(a, b) ==
    /\ a # b
    /\ \/ Len(a) < Len(b) /\ SubSeq(b, 1, Len(a)) = a
       \/ \E k \in 1..Min(Len(a), Len(b)) :
             /\ SubSeq(a, 1, k - 1) = SubSeq(b, 1, k - 1)
             /\ a[k] < b[k]

\* a set of positions as the sequence in pre-order
RECURSIVE InPreOrder(_)
InPreOrder(S) ==
    IF S = {} THEN <<>>
    ELSE LET first == CHOOSE a \in S : \A b \in S \ {a} : Before(a, b)
         IN <<first>> \o InPreOrder(S \ {first})

\* C31: the function units are those of the nodes that give one, each node once, in
\* depth-first pre-order of the nodes, and so are the class units; a function nested
\* in another comes after it
C31_PreOrder ==
    parse.parsed =>
       LET root == Program(parse.file)
           fun == InPreOrder({q \in Paths(root) :
                     FunctionUnits(NodeAt(root, q), ParentAt(root, q)) # <<>>})
           cls == InPreOrder({q \in Paths(root) : ClassUnits(NodeAt(root, q)) # <<>>})
       IN /\ parse.functions =
                [i \in DOMAIN fun |-> FunctionUnits(NodeAt(root, fun[i]), ParentAt(root, fun[i]))[1]]
          /\ parse.classes = [i \in DOMAIN cls |-> ClassUnits(NodeAt(root, cls[i]))[1]]

\* a function nested in another, after a first statement: f, outer, inner
C31_Witness ==
    /\ parse.parsed
    /\ parse.file = <<FunDecl(FALSE, "f", <<>>),
                      FunDecl(FALSE, "outer", <<FunDecl(FALSE, "inner", <<>>)>>)>>
    /\ [i \in DOMAIN parse.functions |-> parse.functions[i].function_name]
          = <<"f", "outer", "inner">>

----------------------------------------------------------------------------
(* Property of overlapping ensureExists calls, checked under EnsureSpec *)

\* C32: a list never holds the sentinel twice, and the push of an ensureExists call
\* never goes onto a list that holds a real turn
C32_OneSentinel ==
    /\ [](\A k \in Keys : Cardinality({i \in DOMAIN hist[k] : hist[k][i] = Sentinel}) <= 1)
    /\ [][\A p \in Slots :
             (req[p].route = "memory" /\ req[p].pc = "lPush" /\ req'[p].pc = "done")
                => ~Populated(hist[req[p].key])
         ]_vars

\* C33: the history part of the system message sent to the chat completion service
\* never holds the sentinel, whatever the interleaving of ensureExists calls and chat
\* requests of the session
C33_NoSentinelInPrompt ==
    \A p \in Slots :
       (req[p].route \in ChatRoutes /\ "openai.chat" \in req[p].calls /\ Busy(p))
          => Sentinel \notin Range(req[p].system.chatHistory)

----------------------------------------------------------------------------
(* The chat routes, one request at a time, when every completion that resolves
   carries a usable reply *)

\* the completion either rejects or resolves to choices[0].message.content non-empty
WindowNext ==
    \/ Sequential /\ MemoryGET_Start(1, Cookies)
    \/ Sequential /\ ChatPOST_Start(1, Cookies)
    \/ Sequential /\ GroundedPOST_Start(1, Cookies)
    \/ MemoryGET(1)
    \/ ChatPOST(1) /\ (req'[1].pc = "lPushUser" => Usable(req'[1].reply))
    \/ GroundedPOST(1) /\ (req'[1].pc = "lPushUser" => Usable(req'[1].reply))

WindowSpec == Init /\ [][WindowNext]_vars

\* C34: one request at a time and usable replies: a chat request reads a list of
\* 0, 1, 2 or 4 entries, its prompt holds at most 4 turns of history, and between
\* requests every list holds 0, 1, 2 or 4 entries
C34_WindowLengths ==
    /\ \A p \in Slots :
          /\ Len(req[p].chats) \in {0, 1, 2, 4}
          /\ Len(req[p].system.chatHistory) <= 4
    /\ Sequential => \A k \in Keys : Len(hist[k]) \in {0, 1, 2, 4}

\* a request that read 4 entries has appended its two turns and goes on to trim
C34_Witness ==
    \E p \in Slots :
       /\ req[p].route \in ChatRoutes /\ req[p].pc = "rPop1"
       /\ Len(req[p].chats) = 4 /\ Len(req[p].system.chatHistory) = 4
       /\ Len(hist[req[p].key]) = 6

----------------------------------------------------------------------------
(* Property of a failed deletion, checked under LifecycleSpec *)

\* C35: a delete request that has answered an error has left the session's codebase
\* directory in place; and a session with no codebase directory, no request and no
\* indexing task in progress has an empty namespace
C35_FailedDeleteChangesNothing ==
    /\ \A p \in Slots :
          (req[p].route = "delete" /\ req[p].pc = "done" /\ req[p].resp.status = 500)
             => existsSync(req[p].cookie)
    /\ \A s \in Seeds :
          (fs[s] = "none" /\ Sequential /\ tasks = {}) => index[SessionNamespace(s)] = {}

----------------------------------------------------------------------------
(* Property of the kinds of stored items, checked under BatchSpec *)

\* the names the extended parser gives the comments and variables of the session's files
OtherUnitNames(seed) ==
    IF fs[seed] = "none" THEN {}
    ELSE UNION {{Parsed(f).comments[k].comment_name : k \in DOMAIN Parsed(f).comments}
                \cup {Parsed(f).variables[k].variable_name : k \in DOMAIN Parsed(f).variables} :
                   f \in FilesOf(fs[seed])}

\* C36: every stored item is of kind function or class and none carries the name of
\* a comment or variable unit; the comment and variable units of a file being
\* processed never get a vector
C36_OnlyFunctionsAndClasses ==
    /\ \A s \in Seeds : \A r \in index[SessionNamespace(s)] :
          /\ r.metadata.type \in {"function", "class"}
          /\ r.id \notin OtherUnitNames(s)
    /\ \A t \in tasks :
          t.kind = "file" =>
             /\ \A k \in DOMAIN t.comments : t.comments[k].embedding = Undefined
             /\ \A k \in DOMAIN t.variables : t.variables[k].embedding = Undefined

\* the file with a comment and a variable has been upserted: its function is stored
C36_Witness ==
    /\ \A t \in tasks : t.path # "lib/a.js"
    /\ Parsed("lib/a.js").comments # <<>> /\ Parsed("lib/a.js").variables # <<>>
    /\ \E r \in index[SessionNamespace("1")] :
          r.id = "f" /\ r.metadata.filepath = Join(CodebasePath(CookieObject("1")), "lib/a.js")

----------------------------------------------------------------------------
(* Property of the names of bound function expressions, checked under ParserSpec *)

\* the name the binding or the property gives the function at a position
BoundName(root, q) ==
    LET up == ParentAt(root, q) IN
    IF up.type = "variable_declarator" THEN Text(childForFieldName(up, "name"))
    ELSE Text(childForFieldName(up, "key"))

\* C37: every arrow function or function expression that is the value of a variable
\* binding or of an object property gives a unit with the binding's name or the
\* property's key and the function's text, whatever the name
C37_BoundFunctionsNamed ==
    parse.parsed =>
       LET root == Program(parse.file) IN
       \A q \in Paths(root) :
          (/\ NodeAt(root, q).type \in {"arrow_function", "function_expression"}
           /\ ParentAt(root, q).type \in {"variable_declarator", "pair"})
             => \E i \in DOMAIN parse.functions :
                   /\ parse.functions[i].function_name = BoundName(root, q)
                   /\ parse.functions[i].code = Text(NodeAt(root, q))

----------------------------------------------------------------------------
(* Property of the termination of background indexing, checked under FairBatchSpec *)

\* the source files of the archive of BatchSpec
BatchFiles ==
    UNION {{Join(d, e.name \o e.ext) :
              e \in {x \in Tree("http://host/lib.zip")[d] : ~x.isDirectory /\ IsSourceFile(x)}} :
           d \in DirsOf("http://host/lib.zip")}

\* the processing of file f is still to come or under way
FilePending(f) ==
    \E t \in tasks : t.kind = "readdir" \/ (t.kind = "file" /\ t.path = f)

\* the codebase has been accepted and the processing of file f is over
FileOver(f) == nDownloads > 0 /\ ~FilePending(f)

\* C38: with every pending callback eventually run, once a download has started
\* indexing the traversal ends, and every eligible file's processing ends; a file
\* that was parsed goes through one upsert call, which ends its processing with the
\* units stored or the failure logged; a file whose parse failed ends with its
\* failure logged and no upsert call; and a file is not processed a second time
C38_IndexingTerminates ==
    /\ (tasks # {}) ~> (tasks = {})
    /\ \A f \in BatchFiles : (nDownloads > 0) ~> FileOver(f)
    /\ \A f \in BatchFiles :
          (\E t \in tasks : t.kind = "file" /\ t.path = f /\ t.pc = "embed")
             ~> (\E t \in tasks : t.kind = "file" /\ t.path = f /\ t.pc = "upsert")
    /\ [][/\ \A f \in BatchFiles : FileOver(f) => FileOver(f)'
          /\ \A t \in tasks :
                (t.kind = "file" /\ Ended(t)) =>
                   IF Unreadable(t.path)
                   THEN /\ t.pc = "catch"
                        /\ index' = index
                        /\ log' = <<"Error processing", t.path>>
                   ELSE /\ t.pc = "upsert"
                        /\ \/ index' = index /\ log' = <<"Error processing", t.path>>
                           \/ /\ log' = log
                              /\ Range(UpsertPayload(t)) \subseteq index'[NamespaceOf(t.cookie)]
      ]_vars

\* indexing is over: one file stored, the upsert of another failed and was logged
C38_Witness ==
    /\ tasks = {} /\ nDownloads > 0
    /\ \A f \in BatchFiles : FileOver(f)
    /\ {r.id : r \in index[NamespaceOf(CookieObject("1"))]} = {"f"}
    /\ log = <<"Error processing", "lib/u.js">>

=============================================================================
